---- MODULE Spec2Model ----
(***************************************************************************)
(* A model of the YTP browser client: list browsing with its generation    *)
(* guard (search.js), the playback session with its two streaming engines  *)
(* (app.js), queue playback (search.js) and playback-position persistence  *)
(* (app.js, profiles.js).                                                  *)
(*                                                                         *)
(* JavaScript runs one handler at a time.  Every action below is one       *)
(* handler run to its end, or the part of an async function between two    *)
(* awaits.  An async function in flight is a record in a set of chains     *)
(* whose pc names the await it is suspended at.                            *)
(***************************************************************************)
EXTENDS Integers, Sequences, FiniteSets, TLC

VARIABLES
    \* ---- list browsing (search.js) ----
    listViewMode, currentQuery, currentChannelId, currentCursor,
    isLoadingMore, hasMoreResults, _listGeneration,
    _searchRawResults, _searchFilters, _channelTab,
    filterToggles,      \* whether the #search-filter-toggles element is in the page
    failedGeneration,   \* history: the generation whose primary request failed last
    channelSeen,        \* history: whether the channel's listings last answered any item
    channelTabs,        \* the channel the #channel-tabs element was rendered for, or Null
    videoGrid,          \* the cards (or the error paragraph) in #video-grid
    listChains,         \* searchVideos / loadChannelVideos / _loadChannelPlaylists / loadMore in flight
    \* ---- navigation ----
    view,               \* "list" or "video": which of #list-view and #video-view is shown
    listViewCache,
    cachedHasMore,      \* history: hasMoreResults when cacheListView ran last
    historyVideos,      \* the video ids that have a { view: 'video' } history entry
    \* ---- queue (search.js) ----
    _queue, queuePosition, queueChains,
    startedPlaylist,    \* history: the playlist id of the last _startQueue
    \* ---- playback session (app.js) ----
    currentVideoId, dashPlayer, hlsPlayer, currentPlayerType, currentAudioLang,
    hlsAudioTracks, currentVideoChannelId, audioBtnContainer, preferredQuality,
    currentActiveHeight,
    videoQualities, pendingSeek,
    qualityMenu,        \* the heights of the options in #quality-menu, top first
    qualityBtnDisabled, \* qualityBtn.disabled
    audioMenu,          \* the languages of the options in #audio-menu
    engines,            \* every engine instance ever created, by creation order
    infoChains,         \* /api/info and /api/hls/audio-tracks requests in flight
    loads,              \* number of playVideo calls so far
    \* ---- media element and position persistence ----
    currentTime, paused, duration, positionSaveTimer, sessionStorage,
    currentProfile, apiPosition,
    apiPreferences,     \* the preferences PUT to /api/profiles/preferences
    restoreCalls,       \* number of restorePosition calls so far
    \* ---- subtitles (subtitles.js) ----
    subtitleTracks, failedSubtitles,
    subtitle_lang,      \* localStorage 'subtitle_lang'
    trackEl,            \* the <track> child of the media element, if any
    trackLoads,         \* <track> elements created whose load or error event is to come
    subtitleBtn,        \* the text of #subtitle-btn: a language, or none for "Off"
    subtitleBtnContainer,
    subtitleMenu,       \* the options in #subtitle-menu
    subtitleOffer,      \* the subtitle_tracks /api/info answers for each video
    erroredTracks,      \* history: the <track> elements whose error event fired
    \* ---- the handler that ran last ----
    lastOp

listVars == <<listViewMode, currentQuery, currentChannelId, currentCursor,
              isLoadingMore, hasMoreResults, _listGeneration,
              _searchRawResults, _searchFilters, filterToggles, failedGeneration, channelSeen, _channelTab, channelTabs,
              videoGrid, listChains>>
navVars == <<view, listViewCache, cachedHasMore, historyVideos>>
queueVars == <<_queue, queuePosition, queueChains, startedPlaylist>>
sessionVars == <<currentVideoId, dashPlayer, hlsPlayer, currentPlayerType,
                 currentAudioLang, hlsAudioTracks, currentVideoChannelId, audioBtnContainer,
                 preferredQuality, currentActiveHeight, videoQualities,
                 qualityMenu, qualityBtnDisabled, pendingSeek, audioMenu, engines, infoChains, loads>>
mediaVars == <<currentTime, paused, duration, positionSaveTimer,
               sessionStorage, restoreCalls>>
profileVars == <<currentProfile, apiPosition, apiPreferences>>
subtitleVars == <<subtitleTracks, failedSubtitles, subtitle_lang, trackEl,
                  trackLoads, subtitleBtn, subtitleBtnContainer, subtitleMenu,
                  subtitleOffer, erroredTracks>>
playerVars == <<sessionVars, mediaVars, subtitleVars>>
vars == <<listVars, navVars, queueVars, sessionVars, mediaVars, subtitleVars,
          profileVars, lastOp>>

-----------------------------------------------------------------------------
(* Bounds of the model *)

\* subtitle tracks of a video
MaxTracks == 4
\* display labels of subtitle tracks, by rank; 0 is the empty label
MaxLabel == 2

\* cap on _listGeneration: no new listing is started at the cap
MaxGen == 2
\* a listing of the server has this many pages after its first
MaxMorePages == 2
\* cap on the number of playVideo calls
MaxLoads == 2
\* the longest list of videos /api/playlist-contents answers
MaxQueueLen == 2
\* the most video levels an engine reports
MaxLevels == 4
\* cap on the number of engine instances created
MaxEngines == 3

-----------------------------------------------------------------------------
(* Values *)

Null == "null"
Queries == {"A", "B"}
Channels == {"ch"}
Videos == {"v1", "v2"}
Playlists == {"p1", "p2"}
\* an absent optional value is <<>>, a present one <<x>>
None == <<>>
Some(x) == <<x>>

\* lastOp: the handler, the generation it captured, the number of results of the
\* response it handled, and one flag
Op(name, gen, n, flag) == [op |-> name, gen |-> gen, n |-> n, flag |-> flag]
NoOp == Op("", 0, 0, FALSE)

\* a cursor of /api/more: the listing it continues and the page it asks for
NoCursor == [src |-> Null, page |-> 0]
Cursor(src, page) == [src |-> src, page |-> page]

\* a result of a list response; type "" is a result with no explicit type
Item(src, page, type) == [src |-> src, page |-> page, type |-> type]
ErrorParagraph == Item("error", 0, "error")

\* the pages a server may answer for a listing
Results(src, page) ==
    { <<>>, <<Item(src, page, "")>> }
PlaylistResults(src, page) ==
    { <<>>, <<Item(src, page, "playlist")>> }
NextCursors(src, page) ==
    {NoCursor} \cup (IF page <= MaxMorePages THEN {Cursor(src, page + 1)} ELSE {})

Chain(kind, gen, pc, q, cur) ==
    [kind |-> kind, gen |-> gen, pc |-> pc, q |-> q, cur |-> cur]

\* language codes are sequences of subtags: "en-GB" is <<"en", "GB">>; the
\* empty sequence is no language (null, or the empty data-lang of "Off")
NoLang == <<>>
OffLang == <<"off">>

Range(f) == {f[i] : i \in DOMAIN f}

\* [...a].reverse()
reverse(a) == [i \in 1..Len(a) |-> a[Len(a) + 1 - i]]

\* no listing of the channel has answered yet
NoneSeen == [videos |-> FALSE, playlists |-> FALSE]

\* the server-side preferences of a profile that has saved none
NoPreferences == [preferred_quality |-> 0, subtitle_lang |-> NoLang]

-----------------------------------------------------------------------------
(* Playback position (app.js savePosition / restorePosition).  Times are   *)
(* in hundredths of a second; a stored position is the text toFixed(1)     *)
(* wrote, in tenths of a second.                                           *)

NearEndSeconds == 30
NearEndPercent == 95
MinSaveSeconds == 5
NoPos == -1

\* Number.prototype.toFixed(1): the nearest tenth
toFixed1(t) == (t + 5) \div 10
\* parseFloat of a stored text
parseFloat(saved) == saved * 10

\* "near the end (within 30s or 95%)"
nearEnd(t, dur) ==
    dur > 0 /\ (t > dur - NearEndSeconds * 100 \/ t * 100 > NearEndPercent * dur)

\* savePosition with the 95% test alone
savePosition_percentOnly(store) ==
    IF currentVideoId = Null \/ currentTime = 0 THEN store
    ELSE IF duration > 0 /\ currentTime * 100 > NearEndPercent * duration
         THEN [store EXCEPT ![currentVideoId] = NoPos]
    ELSE IF currentTime > MinSaveSeconds * 100
         THEN [store EXCEPT ![currentVideoId] = toFixed1(currentTime)]
    ELSE store

\* the storage after savePosition(), given the storage before it
savePosition(store) ==
    IF currentVideoId = Null \/ currentTime = 0 THEN store
    ELSE IF nearEnd(currentTime, duration)
         THEN [store EXCEPT ![currentVideoId] = NoPos]
    ELSE IF currentTime > MinSaveSeconds * 100
         THEN [store EXCEPT ![currentVideoId] = toFixed1(currentTime)]
    ELSE store

\* videoPlayer.currentTime after restorePosition(videoId)
restorePosition(videoId, t) ==
    IF sessionStorage[videoId] # NoPos /\ parseFloat(sessionStorage[videoId]) > MinSaveSeconds * 100
    THEN parseFloat(sessionStorage[videoId])
    ELSE t

-----------------------------------------------------------------------------
(* Engines.  An engine instance is live from its creation to destroy().    *)

Engine(kind, videoId, levels) ==
    [kind |-> kind, video |-> videoId, live |-> TRUE, ready |-> FALSE,
     levels |-> levels]

\* a destroyed instance: it holds nothing and fires no event
Destroyed ==
    [kind |-> "", video |-> Null, live |-> FALSE, ready |-> FALSE, levels |-> <<>>]

\* engines after x.destroy() for the instances in the set ids
destroy(es, ids) ==
    [e \in DOMAIN es |-> IF e \in ids THEN Destroyed ELSE es[e]]

LiveEngines == {e \in DOMAIN engines : engines[e].live}

\* stopPlayer(), but for currentVideoId, which playVideo sets right after;
\* store is the storage when it is called
stopPlayerBody(store) ==
    /\ sessionStorage' = savePosition(store)
    /\ positionSaveTimer' = FALSE
    /\ engines' = destroy(engines, {dashPlayer, hlsPlayer})
    /\ dashPlayer' = 0
    /\ hlsPlayer' = 0
    /\ currentPlayerType' = Null
    /\ currentAudioLang' = Null
    /\ hlsAudioTracks' = <<>>
    /\ currentVideoChannelId' = Null
    /\ pendingSeek' = None
    /\ audioBtnContainer' = FALSE
    /\ currentActiveHeight' = 0
    /\ videoQualities' = <<>>
    \* pause(), removeAttribute('src'), load(): the media element is reset
    /\ paused' = TRUE
    /\ currentTime' = 0
    /\ duration' = 0
    /\ UNCHANGED <<preferredQuality, audioMenu, restoreCalls, qualityMenu>>
    /\ subtitleBtnContainer' = FALSE
    /\ subtitleTracks' = <<>>
    /\ failedSubtitles' = {}
    /\ trackEl' = None
    /\ UNCHANGED <<subtitle_lang, trackLoads, subtitleBtn, subtitleMenu, subtitleOffer,
                   erroredTracks>>

stopPlayer ==
    /\ stopPlayerBody(sessionStorage)
    /\ UNCHANGED qualityBtnDisabled
    /\ currentVideoId' = Null
    /\ UNCHANGED <<infoChains, loads>>

showListView ==
    /\ view' = "list"
    /\ stopPlayer

-----------------------------------------------------------------------------
(* List browsing (search.js) *)

\* results.filter(...) of _applySearchFilters for given toggles
applyFilters(filters, results) ==
    SelectSeq(results, LAMBDA r :
        IF r.type = "" THEN filters.video
        ELSE IF r.type = "playlist" THEN filters.playlist
        ELSE IF r.type = "mix" THEN filters.mix
        ELSE TRUE)

_applySearchFilters(results) == applyFilters(_searchFilters, results)

\* _hasPlaylists() for given raw results
_hasPlaylists(results) ==
    \E i \in 1..Len(results) : results[i].type \in {"playlist", "mix"}

\* searchVideos up to its first await
searchVideos(query) ==
    /\ _listGeneration < MaxGen
    /\ lastOp' = NoOp
    /\ IF query = ""
       THEN UNCHANGED <<listVars, playerVars, view>>
       ELSE /\ listViewMode' = "search"
            /\ currentQuery' = query
            /\ currentChannelId' = Null
            /\ currentCursor' = NoCursor
            /\ hasMoreResults' = TRUE
            /\ _searchRawResults' = <<>>
            /\ _listGeneration' = _listGeneration + 1
            /\ showListView
            /\ channelTabs' = Null
            /\ videoGrid' = <<>>
            /\ listChains' = listChains \cup
                  {Chain("search", _listGeneration + 1, "fetch", query, NoCursor)}
            /\ filterToggles' = FALSE
            /\ UNCHANGED <<isLoadingMore, _searchFilters, failedGeneration, channelSeen, _channelTab>>
    /\ UNCHANGED <<listViewCache, cachedHasMore, historyVideos, queueVars, profileVars>>

\* the catch block of searchVideos, loadChannelVideos and _loadChannelPlaylists,
\* and the observe() after it
listCatch(c) ==
    /\ listChains' = listChains \ {c}
    /\ IF c.gen # _listGeneration
       THEN UNCHANGED <<videoGrid, hasMoreResults, failedGeneration>>
       ELSE /\ videoGrid' = <<ErrorParagraph>>
            /\ hasMoreResults' = FALSE
            /\ failedGeneration' = c.gen

\* the rest of searchVideos once response.json() has resolved with a success
searchCommit(c, results, cursor) ==
    /\ listChains' = listChains \ {c}
    /\ UNCHANGED failedGeneration
    /\ IF Len(results) = 0
       THEN /\ hasMoreResults' = FALSE
            /\ UNCHANGED <<_searchRawResults, videoGrid, currentCursor, filterToggles>>
       ELSE /\ _searchRawResults' = results
            /\ videoGrid' = _applySearchFilters(results)
            /\ filterToggles' = _hasPlaylists(results)
            /\ currentCursor' = cursor
            /\ hasMoreResults' = (cursor # NoCursor)

\* renderVideos(data.results) and the cursor bookkeeping after it
renderPage(results, cursor) ==
    IF Len(results) = 0
    THEN /\ hasMoreResults' = FALSE
         /\ UNCHANGED <<videoGrid, currentCursor>>
    ELSE /\ videoGrid' = results
         /\ currentCursor' = cursor
         /\ hasMoreResults' = (cursor # NoCursor)

\* a fetch of searchVideos, loadChannelVideos or _loadChannelPlaylists settles:
\* the generation is compared, then response.json() is awaited
listFetchSettled(c) ==
    /\ c \in listChains /\ c.pc = "fetch" /\ c.kind # "more"
    /\ lastOp' = NoOp
    /\ \E resolved \in BOOLEAN :
         IF resolved
         THEN /\ listChains' = IF c.gen # _listGeneration
                               THEN listChains \ {c}
                               ELSE (listChains \ {c}) \cup {[c EXCEPT !.pc = "json"]}
              /\ UNCHANGED <<videoGrid, hasMoreResults, failedGeneration>>
         ELSE listCatch(c)
    /\ UNCHANGED <<listViewMode, currentQuery, currentChannelId, currentCursor,
                   isLoadingMore, _listGeneration, _searchRawResults,
                   _searchFilters, filterToggles, channelSeen, _channelTab, channelTabs>>
    /\ UNCHANGED <<navVars, queueVars, playerVars, profileVars>>

\* response.json() of searchVideos settles; pages are the pages the server
\* may answer
searchJsonSettledOf(c, pages) ==
    /\ c \in listChains /\ c.pc = "json" /\ c.kind = "search"
    /\ \E ok \in BOOLEAN :
         IF ok
         THEN \E results \in pages, cursor \in NextCursors(c.q, 1) :
                 /\ searchCommit(c, results, cursor)
                 /\ lastOp' = Op("searchCommit", c.gen, Len(results), FALSE)
         ELSE /\ listCatch(c)
              /\ lastOp' = NoOp
              /\ UNCHANGED <<_searchRawResults, currentCursor, filterToggles>>
    /\ UNCHANGED <<listViewMode, currentQuery, currentChannelId, isLoadingMore,
                   _listGeneration, _searchFilters, channelSeen, _channelTab, channelTabs>>
    /\ UNCHANGED <<navVars, queueVars, playerVars, profileVars>>

searchJsonSettled(c) == searchJsonSettledOf(c, Results(c.q, 1))

\* _loadChannelPlaylists reading the generation without incrementing it
_loadChannelPlaylistsBody_noBump(channelId) ==
    /\ listViewMode' = "channel_playlists"
    /\ currentCursor' = NoCursor
    /\ hasMoreResults' = TRUE
    /\ _listGeneration' = _listGeneration
    /\ videoGrid' = <<>>

\* _loadChannelPlaylists up to its first await
_loadChannelPlaylistsBody(channelId) ==
    /\ listViewMode' = "channel_playlists"
    /\ currentCursor' = NoCursor
    /\ hasMoreResults' = TRUE
    /\ _listGeneration' = _listGeneration + 1
    /\ videoGrid' = <<>>

\* loadChannelVideos up to its first await
loadChannelVideosBody(channelId) ==
    /\ listViewMode' = "channel"
    /\ _channelTab' = "videos"
    /\ currentChannelId' = channelId
    /\ currentQuery' = ""
    /\ currentCursor' = NoCursor
    /\ hasMoreResults' = TRUE
    /\ _listGeneration' = _listGeneration + 1
    /\ showListView
    /\ channelTabs' = Null
    /\ videoGrid' = <<>>
    /\ listChains' = listChains \cup
          {Chain("channel", _listGeneration + 1, "fetch", channelId, NoCursor)}
    /\ filterToggles' = FALSE
    /\ UNCHANGED <<isLoadingMore, _searchRawResults, _searchFilters, failedGeneration>>
    /\ channelSeen' = NoneSeen

loadChannelVideos(channelId) ==
    /\ _listGeneration < MaxGen
    /\ lastOp' = NoOp
    /\ loadChannelVideosBody(channelId)
    /\ UNCHANGED <<listViewCache, cachedHasMore, historyVideos, queueVars, profileVars>>

\* the rest of loadChannelVideos once both bodies are parsed
channelCommit(c, results, cursor, hasPlaylists) ==
    /\ channelSeen' = [videos |-> Len(results) > 0, playlists |-> hasPlaylists]
    /\ UNCHANGED failedGeneration
    /\ IF Len(results) = 0 /\ hasPlaylists
       THEN \* no videos, only playlists: _loadChannelPlaylists(channelId); return
            /\ _listGeneration < MaxGen
            /\ _channelTab' = "playlists"
            /\ _loadChannelPlaylistsBody(c.q)
            /\ listChains' = (listChains \ {c}) \cup
                  {Chain("playlists", _listGeneration + 1, "fetch", c.q, NoCursor)}
            /\ UNCHANGED channelTabs
       ELSE /\ channelTabs' = IF Len(results) > 0 /\ hasPlaylists THEN c.q ELSE channelTabs
            /\ renderPage(results, cursor)
            /\ listChains' = listChains \ {c}
            /\ UNCHANGED <<listViewMode, _listGeneration, _channelTab>>

\* response.json() of the channel videos settles
channelJsonSettled(c) ==
    /\ c \in listChains /\ c.pc = "json" /\ c.kind = "channel"
    /\ lastOp' = NoOp
    /\ \E outcome \in {"fail", "probe", "noprobe"} :
         IF outcome = "fail"
         THEN /\ listCatch(c)
              /\ UNCHANGED <<listViewMode, currentCursor, _listGeneration,
                             _channelTab, channelTabs, channelSeen>>
         ELSE IF outcome = "probe"
         THEN \* playlistsResp.ok: playlistsResp.json() is awaited
              /\ listChains' = (listChains \ {c}) \cup {[c EXCEPT !.pc = "json2"]}
              /\ UNCHANGED <<listViewMode, currentCursor, _listGeneration,
                             _channelTab, channelTabs, videoGrid, hasMoreResults,
                             channelSeen, failedGeneration>>
         ELSE \E results \in Results(c.q, 1), cursor \in NextCursors(c.q, 1) :
                 channelCommit(c, results, cursor, FALSE)
    /\ UNCHANGED <<currentQuery, currentChannelId, isLoadingMore,
                   _searchRawResults, _searchFilters, filterToggles>>
    /\ UNCHANGED <<navVars, queueVars, playerVars, profileVars>>

\* playlistsResp.json() of loadChannelVideos settles
channelProbeSettled(c) ==
    /\ c \in listChains /\ c.pc = "json2" /\ c.kind = "channel"
    /\ lastOp' = NoOp
    /\ \E ok \in BOOLEAN :
         IF ok
         THEN \E results \in Results(c.q, 1), cursor \in NextCursors(c.q, 1),
                 hasPlaylists \in BOOLEAN :
                 channelCommit(c, results, cursor, hasPlaylists)
         ELSE /\ listCatch(c)
              /\ UNCHANGED <<listViewMode, currentCursor, _listGeneration,
                             _channelTab, channelTabs, channelSeen>>
    /\ UNCHANGED <<currentQuery, currentChannelId, isLoadingMore,
                   _searchRawResults, _searchFilters, filterToggles>>
    /\ UNCHANGED <<navVars, queueVars, playerVars, profileVars>>

\* a click on a tab of #channel-tabs
channelTabClick(tab) ==
    /\ channelTabs # Null
    /\ _listGeneration < MaxGen
    /\ lastOp' = NoOp
    /\ IF _channelTab = tab
       THEN UNCHANGED <<listVars, playerVars, view>>
       ELSE IF tab = "videos"
       THEN loadChannelVideosBody(channelTabs)
       ELSE /\ _channelTab' = "playlists"
            /\ _loadChannelPlaylistsBody(channelTabs)
            /\ listChains' = listChains \cup
                  {Chain("playlists", _listGeneration + 1, "fetch", channelTabs, NoCursor)}
            /\ UNCHANGED <<currentQuery, currentChannelId, isLoadingMore,
                           _searchRawResults, _searchFilters, filterToggles, failedGeneration, channelSeen, channelTabs>>
            /\ UNCHANGED <<playerVars, view>>
    /\ UNCHANGED <<listViewCache, cachedHasMore, historyVideos, queueVars, profileVars>>

\* response.json() of _loadChannelPlaylists settles
playlistsJsonSettled(c) ==
    /\ c \in listChains /\ c.pc = "json" /\ c.kind = "playlists"
    /\ lastOp' = NoOp
    /\ \E ok \in BOOLEAN :
         IF ok
         THEN \E results \in PlaylistResults(c.q, 1), cursor \in NextCursors(c.q, 1) :
                 /\ renderPage(results, cursor)
                 /\ listChains' = listChains \ {c}
                 /\ channelSeen' = [channelSeen EXCEPT !.playlists = Len(results) > 0]
                 /\ UNCHANGED failedGeneration
         ELSE /\ listCatch(c)
              /\ UNCHANGED <<currentCursor, channelSeen>>
    /\ UNCHANGED <<listViewMode, currentQuery, currentChannelId, isLoadingMore,
                   _listGeneration, _searchRawResults, _searchFilters, filterToggles,
                   _channelTab, channelTabs>>
    /\ UNCHANGED <<navVars, queueVars, playerVars, profileVars>>

\* loadMore without the isLoadingMore test
loadMore_noFlagTest ==
    /\ IF ~hasMoreResults \/ currentCursor = NoCursor
       THEN /\ lastOp' = Op("loadMore", _listGeneration, 0, FALSE)
            /\ UNCHANGED listVars
       ELSE /\ lastOp' = Op("loadMore", _listGeneration, 0, TRUE)
            /\ isLoadingMore' = TRUE
            /\ listChains' = listChains \cup
                  {Chain("more", _listGeneration, "fetch", Null, currentCursor)}
            /\ UNCHANGED <<listViewMode, currentQuery, currentChannelId,
                           currentCursor, hasMoreResults, _listGeneration,
                           _searchRawResults, _searchFilters, filterToggles, failedGeneration, channelSeen, _channelTab,
                           channelTabs, videoGrid>>
    /\ UNCHANGED <<navVars, queueVars, playerVars, profileVars>>

\* loadMore up to its first await; called by the sentinel's observer
loadMore ==
    /\ IF isLoadingMore \/ ~hasMoreResults \/ currentCursor = NoCursor
       THEN /\ lastOp' = Op("loadMore", _listGeneration, 0, FALSE)
            /\ UNCHANGED listVars
       ELSE /\ lastOp' = Op("loadMore", _listGeneration, 0, TRUE)
            /\ isLoadingMore' = TRUE
            /\ listChains' = listChains \cup
                  {Chain("more", _listGeneration, "fetch", Null, currentCursor)}
            /\ UNCHANGED <<listViewMode, currentQuery, currentChannelId,
                           currentCursor, hasMoreResults, _listGeneration,
                           _searchRawResults, _searchFilters, filterToggles, failedGeneration, channelSeen, _channelTab,
                           channelTabs, videoGrid>>
    /\ UNCHANGED <<navVars, queueVars, playerVars, profileVars>>

\* the catch block of loadMore that returns on a stale token without
\* resetting the flag
moreCatch_staleKeepsFlag(c) ==
    /\ listChains' = listChains \ {c}
    /\ isLoadingMore' = IF c.gen # _listGeneration THEN isLoadingMore ELSE FALSE
    /\ hasMoreResults' = IF c.gen # _listGeneration THEN hasMoreResults ELSE FALSE

\* the catch block of loadMore and the reset of the flag after it
moreCatch(c) ==
    /\ listChains' = listChains \ {c}
    /\ isLoadingMore' = FALSE
    /\ hasMoreResults' = IF c.gen # _listGeneration THEN hasMoreResults ELSE FALSE

\* the fetch of loadMore settles
moreFetchSettled(c) ==
    /\ c \in listChains /\ c.pc = "fetch" /\ c.kind = "more"
    /\ lastOp' = Op("moreFetch", c.gen, 0, c.gen # _listGeneration)
    /\ \E resolved \in BOOLEAN :
         IF resolved
         THEN IF c.gen # _listGeneration
              THEN /\ isLoadingMore' = FALSE
                   /\ listChains' = listChains \ {c}
                   /\ UNCHANGED hasMoreResults
              ELSE /\ listChains' = (listChains \ {c}) \cup {[c EXCEPT !.pc = "json"]}
                   /\ UNCHANGED <<isLoadingMore, hasMoreResults>>
         ELSE moreCatch(c)
    /\ UNCHANGED <<listViewMode, currentQuery, currentChannelId, currentCursor,
                   _listGeneration, _searchRawResults, _searchFilters, filterToggles, failedGeneration, channelSeen,
                   _channelTab, channelTabs, videoGrid>>
    /\ UNCHANGED <<navVars, queueVars, playerVars, profileVars>>

\* moreCommit with has-more taken from the cursor alone
moreCommit_cursorOnly(c, results, cursor) ==
    /\ listChains' = listChains \ {c}
    /\ IF listViewMode = "search"
       THEN /\ _searchRawResults' = _searchRawResults \o results
            /\ videoGrid' = videoGrid \o _applySearchFilters(results)
       ELSE /\ videoGrid' = videoGrid \o results
            /\ UNCHANGED _searchRawResults
    /\ currentCursor' = cursor
    /\ hasMoreResults' = (cursor # NoCursor)
    /\ isLoadingMore' = FALSE

\* the rest of loadMore once response.json() has resolved with a success
moreCommit(c, results, cursor) ==
    /\ listChains' = listChains \ {c}
    /\ IF listViewMode = "search"
       THEN /\ _searchRawResults' = _searchRawResults \o results
            /\ videoGrid' = videoGrid \o _applySearchFilters(results)
       ELSE /\ videoGrid' = videoGrid \o results
            /\ UNCHANGED _searchRawResults
    /\ currentCursor' = cursor
    /\ hasMoreResults' = (cursor # NoCursor /\ Len(results) > 0)
    /\ isLoadingMore' = FALSE

\* response.json() of loadMore settles; pages are the pages the server may
\* answer
moreJsonSettledOf(c, pages) ==
    /\ c \in listChains /\ c.pc = "json" /\ c.kind = "more"
    /\ \E ok \in BOOLEAN :
         IF ok
         THEN \E results \in pages,
                 cursor \in NextCursors(c.cur.src, c.cur.page) :
                 /\ moreCommit(c, results, cursor)
                 /\ lastOp' = Op("moreCommit", c.gen, Len(results), cursor # NoCursor)
         ELSE /\ moreCatch(c)
              /\ lastOp' = NoOp
              /\ UNCHANGED <<_searchRawResults, videoGrid, currentCursor>>
    /\ UNCHANGED <<listViewMode, currentQuery, currentChannelId,
                   _listGeneration, _searchFilters, filterToggles, failedGeneration, channelSeen, _channelTab, channelTabs>>
    /\ UNCHANGED <<navVars, queueVars, playerVars, profileVars>>

moreJsonSettled(c) == moreJsonSettledOf(c, Results(c.cur.src, c.cur.page))

-----------------------------------------------------------------------------
(* The state after the scripts have loaded *)

InitList ==
    /\ listViewMode = "search"
    /\ currentQuery = ""
    /\ currentChannelId = Null
    /\ currentCursor = NoCursor
    /\ isLoadingMore = FALSE
    /\ hasMoreResults = TRUE
    /\ _listGeneration = 0
    /\ _searchRawResults = <<>>
    /\ _searchFilters = [video |-> TRUE, playlist |-> TRUE, mix |-> TRUE]
    /\ filterToggles = FALSE
    /\ channelSeen = NoneSeen
    /\ failedGeneration = 0
    /\ _channelTab = "videos"
    /\ channelTabs = Null
    /\ videoGrid = <<>>
    /\ listChains = {}

InitQueue ==
    /\ _queue = None
    /\ queuePosition = ""
    /\ queueChains = {}
    /\ startedPlaylist = Null

InitSession ==
    /\ currentVideoId = Null
    /\ dashPlayer = 0
    /\ hlsPlayer = 0
    /\ currentPlayerType = Null
    /\ currentAudioLang = Null
    /\ hlsAudioTracks = <<>>
    /\ currentVideoChannelId = Null
    /\ audioBtnContainer = FALSE
    /\ preferredQuality = 1080
    /\ currentActiveHeight = 0
    /\ videoQualities = <<>>
    /\ qualityMenu = <<>>
    /\ qualityBtnDisabled = (currentVideoId # Null)
    /\ pendingSeek = None
    /\ audioMenu = <<>>
    /\ engines = <<>>
    /\ infoChains = {}
    /\ loads = 0

InitMedia ==
    /\ currentTime = 0
    /\ paused = TRUE
    /\ duration = 0
    /\ positionSaveTimer = FALSE
    /\ sessionStorage = [v \in Videos |-> NoPos]
    /\ restoreCalls = 0

\* no preference saved, no track offered
InitSubtitle ==
    /\ subtitleTracks = <<>>
    /\ failedSubtitles = {}
    /\ subtitle_lang = NoLang
    /\ trackEl = None
    /\ trackLoads = {}
    /\ subtitleBtn = NoLang
    /\ subtitleBtnContainer = FALSE
    /\ subtitleMenu = <<>>
    /\ subtitleOffer = [v \in Videos |-> <<>>]
    /\ erroredTracks = {}

InitProfile ==
    /\ currentProfile = FALSE
    /\ apiPosition = [v \in Videos |-> NoPos]
    /\ apiPreferences = NoPreferences

InitNav ==
    /\ view = "list"
    /\ cachedHasMore = TRUE
    /\ listViewCache = None
    /\ historyVideos = {}

Init ==
    /\ InitList /\ InitNav /\ InitQueue /\ InitSession /\ InitMedia /\ InitProfile
    /\ InitSubtitle
    /\ lastOp = NoOp

-----------------------------------------------------------------------------
(* List browsing on its own: the player stays idle *)

NextList ==
    \/ \E query \in Queries \cup {""} : searchVideos(query)
    \/ \E channelId \in Channels : loadChannelVideos(channelId)
    \/ \E tab \in {"videos", "playlists"} : channelTabClick(tab)
    \/ loadMore
    \/ \E c \in listChains : listFetchSettled(c)
    \/ \E c \in listChains : searchJsonSettled(c)
    \/ \E c \in listChains : channelJsonSettled(c)
    \/ \E c \in listChains : channelProbeSettled(c)
    \/ \E c \in listChains : playlistsJsonSettled(c)
    \/ \E c \in listChains : moreFetchSettled(c)
    \/ \E c \in listChains : moreJsonSettled(c)

SpecList == Init /\ [][NextList]_vars

-----------------------------------------------------------------------------
(* Properties of list browsing *)

MoreInFlight == {c \in listChains : c.kind = "more"}

\* C2: no step of a list chain whose captured generation differs from the
\* current one writes the raw results, the cursor, has-more or the grid.
C2_NoWriteWithStaleToken ==
    [][\A c \in listChains :
          (c \notin listChains' /\ c.gen # _listGeneration)
          => UNCHANGED <<_searchRawResults, currentCursor, hasMoreResults, videoGrid>>]_vars

\* C3: when the response of a search is handled after the response of a
\* later search has been handled, the grid, the raw results and the cursor
\* stay those of the later search.
C3_StaleSearchDiscarded ==
    [][\A c \in listChains :
          (/\ c.kind = "search" /\ c \notin listChains'
           /\ c.gen < _listGeneration
           /\ listViewMode = "search" /\ currentQuery # c.q
           /\ \A d \in listChains : d.gen # _listGeneration)
          => UNCHANGED <<_searchRawResults, currentCursor, videoGrid>>]_vars

\* C8: a loadMore response with a cursor and no results leaves has-more
\* false, and while has-more is false no loadMore request is issued.
C8_EmptyPageExhausts ==
    [][/\ (lastOp'.op = "moreCommit" /\ lastOp'.n = 0 /\ lastOp'.flag)
            => ~hasMoreResults'
       /\ ~hasMoreResults
            => \A c \in listChains' \ listChains : ~(c.kind = "more" /\ c.pc = "fetch")]_vars

\* C8 witness: an empty page with a cursor has just been handled and loadMore
\* was called after it without issuing a request
C8_Witness ==
    /\ lastOp.op = "loadMore" /\ ~lastOp.flag
    /\ currentCursor # NoCursor /\ ~hasMoreResults /\ ~isLoadingMore
    /\ currentCursor.page = 3

\* C10: a loadMore call made while a loadMore request is in flight, with no
\* cursor or with has-more false changes nothing and issues no request.
C10_LoadMoreIdempotent ==
    [][(/\ lastOp'.op = "loadMore"
        /\ \/ MoreInFlight # {}
           \/ currentCursor = NoCursor
           \/ ~hasMoreResults)
       => (UNCHANGED listVars /\ ~lastOp'.flag)]_vars

\* C10 witness: loadMore was called with a request in flight, a cursor and
\* has-more true, and did nothing
C10_Witness ==
    /\ lastOp.op = "loadMore" /\ ~lastOp.flag
    /\ MoreInFlight # {} /\ currentCursor # NoCursor /\ hasMoreResults

\* C38: isLoadingMore is true exactly while a loadMore request is in
\* flight, and at most one is: every way a request ends (an appended page,
\* a failure, a discard after a new search or channel load) resets the flag.
C38_FlagIffRequest ==
    /\ Cardinality(MoreInFlight) <= 1
    /\ isLoadingMore <=> MoreInFlight # {}

\* C38 witness: the response of a loadMore request that a later search or
\* channel load had superseded arrived and was discarded
C38_Witness ==
    /\ lastOp.op = "moreFetch" /\ lastOp.flag
    /\ lastOp.gen < _listGeneration
    /\ ~isLoadingMore /\ MoreInFlight = {}

-----------------------------------------------------------------------------
(* Loading a video (app.js) *)

\* playVideo(videoId) up to its return: stopPlayer(), the new video id and
\* the /api/info request; store is the storage when it is called
playVideoFrom(videoId, store) ==
    /\ stopPlayerBody(store)
    /\ qualityBtnDisabled' = TRUE
    /\ currentVideoId' = videoId
    /\ infoChains' = infoChains \cup
          {[kind |-> "info", video |-> videoId, n |-> loads + 1]}
    /\ loads' = loads + 1

playVideo(videoId) == playVideoFrom(videoId, sessionStorage)

cacheListView ==
    /\ listViewCache' = Some([mode |-> listViewMode, query |-> currentQuery,
                              channelId |-> currentChannelId, cursor |-> currentCursor,
                              html |-> videoGrid,
                              searchRawResults |-> _searchRawResults])
    /\ cachedHasMore' = hasMoreResults

\* history.pushState({ view: 'video', videoId, ... })
pushVideoState(videoId) ==
    historyVideos' = historyVideos \cup {videoId}

\* click on a plain video card of the list
navigateToVideo(videoId) ==
    /\ loads < MaxLoads
    /\ view = "list"
    /\ lastOp' = Op("playVideo", 0, 0, currentVideoId # Null)
    /\ view' = "video"
    /\ cacheListView
    /\ pushVideoState(videoId)
    /\ playVideo(videoId)
    /\ UNCHANGED <<listVars, queueVars, profileVars>>

\* popstate to a { view: 'video' } entry
popstateVideo(videoId) ==
    /\ loads < MaxLoads
    /\ videoId \in historyVideos
    /\ lastOp' = Op("playVideo", 0, 0, currentVideoId # Null)
    /\ view' = "video"
    /\ playVideo(videoId)
    /\ UNCHANGED <<listVars, listViewCache, cachedHasMore, historyVideos, queueVars, profileVars>>

\* restoreListCache()
restoreListCache ==
    IF listViewCache = None
    THEN UNCHANGED <<listViewMode, currentQuery, currentChannelId, currentCursor,
                     hasMoreResults, videoGrid, _searchRawResults, filterToggles,
                     channelTabs>>
    ELSE LET cache == listViewCache[1]
         IN  /\ listViewMode' = cache.mode
             /\ currentQuery' = cache.query
             /\ currentChannelId' = cache.channelId
             /\ currentCursor' = cache.cursor
             /\ hasMoreResults' = (cache.cursor # NoCursor)
             /\ videoGrid' = cache.html
             /\ _searchRawResults' =
                   IF cache.mode = "search" /\ Len(cache.searchRawResults) > 0
                   THEN cache.searchRawResults ELSE _searchRawResults
             /\ filterToggles' =
                   IF cache.mode = "search" /\ Len(cache.searchRawResults) > 0
                   THEN _hasPlaylists(cache.searchRawResults) ELSE filterToggles
             /\ channelTabs' =
                   IF cache.mode = "search" /\ Len(cache.searchRawResults) > 0
                   THEN channelTabs
                   ELSE IF cache.mode \in {"channel", "channel_playlists"}
                   THEN cache.channelId ELSE channelTabs

\* popstate to an entry that is neither a video nor a channel:
\* showListView(), restoreListCache()
popstateList ==
    /\ lastOp' = Op("stopPlayer", 0, 0, FALSE)
    /\ showListView
    /\ restoreListCache
    /\ UNCHANGED <<isLoadingMore, _listGeneration, _searchFilters, failedGeneration, channelSeen, _channelTab,
                   listChains, listViewCache, cachedHasMore, historyVideos, queueVars, profileVars>>

\* the chains of searchVideos, loadChannelVideos and _loadChannelPlaylists
\* that a step starts: each holds the token the step issued
Issued == {c \in listChains' \ listChains : c.kind \in {"search", "channel", "playlists"}
                                              /\ c.pc = "fetch"}

\* C29: the generation token never decreases; each token issued by a new
\* search, channel load or channel-playlists load is greater than every
\* token issued before, and it is the current one: every older token is
\* below _listGeneration and none is above it.
C29_GenerationMonotonic ==
    [][/\ _listGeneration' >= _listGeneration
       /\ \A c \in Issued : /\ c.gen = _listGeneration'
                             /\ c.gen > _listGeneration
                             /\ \A d \in listChains : d.gen < c.gen
       /\ \A c \in listChains' : c.gen <= _listGeneration']_vars

\* C29 witness: two tokens have been issued, the chain holding the first is
\* still in flight and only the second equals the current token
C29_Witness ==
    /\ _listGeneration = 2
    /\ \E c, d \in listChains : /\ c.kind = "search" /\ c.gen = 1
                                 /\ d.kind \in {"channel", "playlists"} /\ d.gen = 2

-----------------------------------------------------------------------------
(* Searching with the way to a video and back: the /api/info responses and *)
(* the engines are left out; they write no list state.                     *)

\* click on a plain video card of the grid (attachCardListeners)
cardClick(videoId) ==
    /\ \E i \in 1..Len(videoGrid) : videoGrid[i].type = ""
    /\ navigateToVideo(videoId)

\* the browser's back button in the video view, to the entry of the list
backToList ==
    /\ view = "video"
    /\ popstateList

NextListNav ==
    \/ \E query \in Queries : searchVideos(query)
    \/ loadMore
    \/ \E c \in listChains : listFetchSettled(c)
    \/ \E c \in listChains : searchJsonSettled(c)
    \/ \E c \in listChains : moreFetchSettled(c)
    \/ \E c \in listChains : moreJsonSettled(c)
    \/ cardClick("v1")
    \/ popstateVideo("v1")
    \/ backToList

SpecListNav == Init /\ [][NextListNav]_vars

\* C23: every operation that replaces the list's result set (a search, a
\* channel or playlists load, restoreListCache) increments _listGeneration,
\* so that no response requested before it is current afterwards.
C23_ReplacingBumpsGeneration ==
    [][(\/ \E c \in listChains' \ listChains : c.kind # "more" /\ c.pc = "fetch"
        \/ lastOp'.op = "stopPlayer" /\ listViewCache # None)
       => /\ _listGeneration' = _listGeneration + 1
          /\ \A c \in listChains : c.gen # _listGeneration']_vars

\* C24: restoreListCache puts the list state back exactly as cacheListView
\* saved it (mode, query, channel, cursor, raw results and has-more),
\* whatever ran in between; a listing that was exhausted or had failed when
\* it was cached does not paginate after the restore.
C24_RestoreReproducesCache ==
    [][(lastOp'.op = "stopPlayer" /\ listViewCache # None)
       => /\ listViewMode' = listViewCache[1].mode
          /\ currentQuery' = listViewCache[1].query
          /\ currentChannelId' = listViewCache[1].channelId
          /\ currentCursor' = listViewCache[1].cursor
          /\ _searchRawResults' = listViewCache[1].searchRawResults
          /\ hasMoreResults' = cachedHasMore]_vars

\* C28: once the search or channel load of the current generation has
\* failed, hasMoreResults is false and loadMore does nothing and requests
\* nothing, until a new search or channel load is issued.
C28_FailedListingHalts ==
    [][/\ (failedGeneration' > 0 /\ failedGeneration' = _listGeneration')
          => ~hasMoreResults'
       /\ (failedGeneration > 0 /\ failedGeneration = _listGeneration
              /\ lastOp'.op = "loadMore")
          => (~lastOp'.flag /\ UNCHANGED listVars)]_vars

-----------------------------------------------------------------------------
(* Channel listings with the way to a video and back *)

\* loadChannelPlaylists(channelId, ...) up to the awaits of _loadChannelPlaylists
\* and of the background probe of the channel's videos
loadChannelPlaylists(channelId) ==
    /\ _listGeneration < MaxGen
    /\ lastOp' = NoOp
    /\ _channelTab' = "playlists"
    /\ currentChannelId' = channelId
    /\ currentQuery' = ""
    /\ showListView
    /\ channelTabs' = Null
    /\ _loadChannelPlaylistsBody(channelId)
    /\ listChains' = listChains \cup
          {Chain("playlists", _listGeneration + 1, "fetch", channelId, NoCursor),
           Chain("probe", _listGeneration + 1, "probe", channelId, NoCursor)}
    /\ channelSeen' = NoneSeen
    /\ filterToggles' = FALSE
    /\ UNCHANGED <<isLoadingMore, _searchRawResults, _searchFilters, failedGeneration>>
    /\ UNCHANGED <<listViewCache, cachedHasMore, historyVideos, queueVars, profileVars>>

\* the background probe of loadChannelPlaylists settles: its two then
\* callbacks, or its catch
probeSettled(c) ==
    /\ c \in listChains /\ c.kind = "probe"
    /\ lastOp' = NoOp
    /\ listChains' = listChains \ {c}
    /\ \E ok \in BOOLEAN, results \in Results(c.q, 1) :
         IF ok /\ c.gen = _listGeneration
         THEN /\ channelSeen' = [channelSeen EXCEPT !.videos = Len(results) > 0]
              /\ channelTabs' = IF Len(results) > 0 THEN c.q ELSE channelTabs
         ELSE UNCHANGED <<channelSeen, channelTabs>>
    /\ UNCHANGED <<listViewMode, currentQuery, currentChannelId, currentCursor,
                   isLoadingMore, hasMoreResults, _listGeneration,
                   _searchRawResults, _searchFilters, filterToggles, failedGeneration, _channelTab, videoGrid>>
    /\ UNCHANGED <<navVars, queueVars, playerVars, profileVars>>

NextChannelNav ==
    \/ \E channelId \in Channels : loadChannelVideos(channelId)
    \/ \E channelId \in Channels : loadChannelPlaylists(channelId)
    \/ \E tab \in {"videos", "playlists"} : channelTabClick(tab)
    \/ \E c \in listChains : listFetchSettled(c)
    \/ \E c \in listChains : channelJsonSettled(c)
    \/ \E c \in listChains : channelProbeSettled(c)
    \/ \E c \in listChains : playlistsJsonSettled(c)
    \/ \E c \in listChains : probeSettled(c)
    \/ cardClick("v1")
    \/ backToList

SpecChannelNav == Init /\ [][NextChannelNav]_vars

\* C25: the Videos/Playlists tabs are put on the page only when the videos
\* listing and the playlists listing of the channel both answered at least
\* one item, on every path that shows them (loadChannelVideos, the probe of
\* loadChannelPlaylists, restoreListCache); a channel with playlists and no
\* videos goes to the playlists listing without tabs.
C25_TabsOnlyWithBoth ==
    [][/\ (channelTabs' # Null /\ (channelTabs = Null \/ lastOp'.op = "stopPlayer"))
          => (channelSeen'.videos /\ channelSeen'.playlists)
       /\ (\E c \in listChains \ listChains' :
              /\ c.kind = "channel"
              /\ ~channelSeen'.videos /\ channelSeen'.playlists
              /\ channelSeen' # channelSeen \/ listViewMode' # listViewMode)
          => (listViewMode' = "channel_playlists" /\ channelTabs' = Null)]_vars

-----------------------------------------------------------------------------
(* Search filters: searches whose pages hold videos, playlists and mixes,  *)
(* loadMore, and the clicks on the three filter buttons.                   *)

FilterTypes == {"video", "playlist", "mix"}

\* the pages a search may answer: results of every kind
TypedResults(src, page) ==
    { <<>>,
      <<Item(src, page, "")>>,
      <<Item(src, page, "playlist"), Item(src, page, "")>>,
      <<Item(src, page, ""), Item(src, page, "mix")>> }

\* click on a filter button: the toggle, then _renderSearchFiltered()
filterToggle(type) ==
    LET filters == [_searchFilters EXCEPT ![type] = ~@]
    IN  /\ view = "list"
        /\ filterToggles
        /\ lastOp' = Op("filterToggle", 0, 0, filters[type])
        /\ _searchFilters' = filters
        /\ videoGrid' = applyFilters(filters, _searchRawResults)
        /\ filterToggles' = _hasPlaylists(_searchRawResults)
        /\ UNCHANGED <<listViewMode, currentQuery, currentChannelId, currentCursor,
                       isLoadingMore, hasMoreResults, _listGeneration,
                       _searchRawResults, failedGeneration, channelSeen, _channelTab,
                       channelTabs, listChains>>
        /\ UNCHANGED <<navVars, queueVars, playerVars, profileVars>>

\* the result cards of a grid: everything but the error paragraph
cards(grid) == SelectSeq(grid, LAMBDA r : r # ErrorParagraph)

NextFilter ==
    \/ \E query \in Queries : searchVideos(query)
    \/ loadMore
    \/ \E c \in listChains : listFetchSettled(c)
    \/ \E c \in listChains : searchJsonSettledOf(c, TypedResults(c.q, 1))
    \/ \E c \in listChains : moreFetchSettled(c)
    \/ \E c \in listChains : moreJsonSettledOf(c, TypedResults(c.cur.src, c.cur.page))
    \/ \E type \in FilterTypes : filterToggle(type)

SpecFilter == Init /\ [][NextFilter]_vars

-----------------------------------------------------------------------------
(* Queue mode (search.js) *)

\* the lists of video ids /api/playlist-contents may answer
RECURSIVE SeqsUpTo(_, _)
SeqsUpTo(S, n) ==
    IF n = 0 THEN {<<>>}
    ELSE LET shorter == SeqsUpTo(S, n - 1)
         IN  shorter \cup {Append(q, x) : q \in {r \in shorter : Len(r) = n - 1}, x \in S}
QueueVideos == SeqsUpTo(Videos, MaxQueueLen)

\* Array.prototype.findIndex(v => v.id === videoId), indices from 0
findIndex(videos, videoId) ==
    IF \E i \in 1..Len(videos) : videos[i] = videoId
    THEN (CHOOSE i \in 1..Len(videos) :
             videos[i] = videoId /\ \A j \in 1..(i - 1) : videos[j] # videoId) - 1
    ELSE -1

\* _queue.videos[index], indices from 0
videoAt(q, index) == q.videos[index + 1]

\* the text _renderQueue writes to #queue-position
positionText(q) == ToString(q.currentIndex + 1) \o "/" \o ToString(Len(q.videos))

\* click on a playlist or mix card: _startQueue, with _loadQueue up to its await
_startQueue(videoId, playlistId) ==
    /\ loads < MaxLoads
    /\ lastOp' = NoOp
    /\ view' = "video"
    /\ cacheListView
    /\ pushVideoState(videoId)
    /\ playVideo(videoId)
    /\ queueChains' = queueChains \cup
          {[video |-> videoId, playlist |-> playlistId, pc |-> "fetch", n |-> loads + 1]}
    /\ startedPlaylist' = playlistId
    /\ UNCHANGED <<listVars, _queue, queuePosition, profileVars>>

\* the fetch of _loadQueue settles
_loadQueueFetchSettled(c) ==
    /\ c \in queueChains /\ c.pc = "fetch"
    /\ lastOp' = NoOp
    /\ \E resolved \in BOOLEAN :
         queueChains' = IF resolved /\ currentVideoId = c.video
                        THEN (queueChains \ {c}) \cup {[c EXCEPT !.pc = "json"]}
                        ELSE queueChains \ {c}
    /\ UNCHANGED <<listVars, navVars, _queue, queuePosition, startedPlaylist, playerVars, profileVars>>

\* _loadQueueCommit keeping the -1 of findIndex
_loadQueueCommit_keepMinusOne(c, videos) ==
    LET q == [videos |-> videos,
              currentIndex |-> findIndex(videos, c.video),
              playlistId |-> c.playlist]
    IN  /\ _queue' = Some(q)
        /\ queuePosition' = positionText(q)

\* _queue = { ... } with its currentIndex, and _renderQueue()
_loadQueueCommit(c, videos) ==
    LET found == findIndex(videos, c.video)
        q == [videos |-> videos,
              currentIndex |-> IF found = -1 THEN 0 ELSE found,
              playlistId |-> c.playlist]
    IN  /\ _queue' = Some(q)
        /\ queuePosition' = positionText(q)

\* resp.json() of _loadQueue settles
_loadQueueJsonSettled(c) ==
    /\ c \in queueChains /\ c.pc = "json"
    /\ queueChains' = queueChains \ {c}
    /\ \E ok \in BOOLEAN :
         IF ok
         THEN \E videos \in QueueVideos :
                 /\ lastOp' = Op("_loadQueue", 0, Len(videos), findIndex(videos, c.video) = -1)
                 /\ IF Len(videos) > 0
                    THEN _loadQueueCommit(c, videos)
                    ELSE UNCHANGED <<_queue, queuePosition>>
         ELSE /\ lastOp' = NoOp
              /\ UNCHANGED <<_queue, queuePosition>>
    /\ UNCHANGED <<listVars, navVars, startedPlaylist, playerVars, profileVars>>

\* _playQueueItem(index) past its guard, without _queue.currentIndex = index
_playQueueItemBody_keepIndex(index, store) ==
    LET q == _queue[1]
    IN  /\ loads < MaxLoads
        /\ _queue' = Some(q)
        /\ pushVideoState(videoAt(q, index))
        /\ playVideoFrom(videoAt(q, index), store)
        /\ queuePosition' = positionText(q)

\* _playQueueItem(index) past its guard; store is the storage when it is called
_playQueueItemBody(index, store) ==
    LET q == [_queue[1] EXCEPT !.currentIndex = index]
    IN  /\ loads < MaxLoads
        /\ _queue' = Some(q)
        /\ pushVideoState(videoAt(q, index))
        /\ playVideoFrom(videoAt(q, index), store)
        /\ queuePosition' = positionText(q)

\* _playQueueItem(index) that takes index 0 for out of range
_playQueueItem_skipFirst(index) ==
    /\ view = "video"
    /\ lastOp' = Op("_playQueueItem", 0, index, FALSE)
    /\ IF _queue = None \/ index <= 0 \/ index >= Len(_queue[1].videos)
       THEN UNCHANGED <<navVars, _queue, queuePosition, playerVars>>
       ELSE /\ _playQueueItemBody(index, sessionStorage)
            /\ UNCHANGED <<view, listViewCache, cachedHasMore>>
    /\ UNCHANGED <<listVars, queueChains, startedPlaylist, profileVars>>

\* _playQueueItem(index), called by a click on a queue item
_playQueueItem(index) ==
    /\ view = "video"
    /\ lastOp' = Op("_playQueueItem", 0, index, FALSE)
    /\ IF _queue = None \/ index < 0 \/ index >= Len(_queue[1].videos)
       THEN UNCHANGED <<navVars, _queue, queuePosition, playerVars>>
       ELSE /\ _playQueueItemBody(index, sessionStorage)
            /\ UNCHANGED <<view, listViewCache, cachedHasMore>>
    /\ UNCHANGED <<listVars, queueChains, startedPlaylist, profileVars>>

\* what _advanceQueue leaves alone when it loads nothing
advanceIdle(store) ==
    /\ sessionStorage' = store
    /\ UNCHANGED <<_queue, historyVideos, sessionVars, currentTime, paused,
                   duration, positionSaveTimer, restoreCalls, subtitleVars>>

\* _advanceQueue without the comparison of currentVideoId
_advanceQueue_noGuard(store) ==
    IF _queue[1].currentIndex + 1 < Len(_queue[1].videos)
    THEN _playQueueItemBody(_queue[1].currentIndex + 1, store)
    ELSE /\ queuePosition' = "Finished"
         /\ advanceIdle(store)

\* _advanceQueue() with a queue; store is the storage when it is called
_advanceQueue(store) ==
    IF \/ _queue[1].currentIndex >= Len(_queue[1].videos)
       \/ currentVideoId # videoAt(_queue[1], _queue[1].currentIndex)
    THEN /\ advanceIdle(store)
         /\ UNCHANGED queuePosition
    ELSE IF _queue[1].currentIndex + 1 < Len(_queue[1].videos)
    THEN _playQueueItemBody(_queue[1].currentIndex + 1, store)
    ELSE /\ queuePosition' = "Finished"
         /\ advanceIdle(store)

\* the 'ended' event of the media element: the listener of app.js, then the
\* listener of search.js (app.js is loaded first: search.js uses its videoPlayer)
ended ==
    LET store == IF currentVideoId # Null
                 THEN [sessionStorage EXCEPT ![currentVideoId] = NoPos]
                 ELSE sessionStorage
    IN  /\ loads > 0
        /\ lastOp' = Op("ended", 0, 0, FALSE)
        /\ IF _queue # None
           THEN _advanceQueue(store)
           ELSE /\ advanceIdle(store)
                /\ UNCHANGED queuePosition
        /\ UNCHANGED <<listVars, view, listViewCache, cachedHasMore, queueChains, startedPlaylist, profileVars>>

\* _closeQueue(), called by a click on the close area of the queue
_closeQueue ==
    /\ view = "video"
    /\ _queue # None
    /\ lastOp' = NoOp
    /\ _queue' = None
    /\ UNCHANGED <<listVars, navVars, queuePosition, queueChains, startedPlaylist, playerVars, profileVars>>

\* click on a plain related-video card: _closeQueue(), then playVideo
relatedClick(videoId) ==
    /\ loads < MaxLoads
    /\ view = "video"
    /\ lastOp' = Op("playVideo", 0, 0, currentVideoId # Null)
    /\ _queue' = None
    /\ pushVideoState(videoId)
    /\ playVideo(videoId)
    /\ UNCHANGED <<listVars, view, listViewCache, cachedHasMore, queuePosition, queueChains, startedPlaylist, profileVars>>

-----------------------------------------------------------------------------
(* Queue playback: the info responses and the engines are left out; they   *)
(* write neither the queue nor currentVideoId.                             *)

NextQueue ==
    \/ \E videoId \in Videos, playlistId \in Playlists : _startQueue(videoId, playlistId)
    \/ \E c \in queueChains : _loadQueueFetchSettled(c)
    \/ \E c \in queueChains : _loadQueueJsonSettled(c)
    \/ \E index \in -1..MaxQueueLen : _playQueueItem(index)
    \/ ended
    \/ _closeQueue
    \/ \E videoId \in Videos : navigateToVideo(videoId)
    \/ \E videoId \in Videos : relatedClick(videoId)
    \/ \E videoId \in Videos : popstateVideo(videoId)
    \/ popstateList

SpecQueue == Init /\ [][NextQueue]_vars

(* Properties of the queue *)

\* C5: the 'ended' event changes the queue's currentIndex and loads a video
\* only when currentVideoId is the id of videos[currentIndex].
C5_EndedGuard ==
    [][(/\ lastOp'.op = "ended"
        /\ _queue # None
        /\ currentVideoId # videoAt(_queue[1], _queue[1].currentIndex))
       => UNCHANGED <<_queue, currentVideoId, loads, infoChains, queuePosition>>]_vars

\* C5 witness: with a queue at v1 the session went to another video, the
\* 'ended' event came and the queue stayed where it was
C5_Witness ==
    /\ lastOp.op = "ended"
    /\ _queue # None /\ currentVideoId # Null
    /\ currentVideoId # videoAt(_queue[1], _queue[1].currentIndex)
    /\ _queue[1].currentIndex + 1 < Len(_queue[1].videos)

\* C9: the queue is null or its currentIndex is a valid index of its videos.
C9_QueueIndexValid ==
    _queue # None =>
        (_queue[1].currentIndex >= 0 /\ _queue[1].currentIndex < Len(_queue[1].videos))

\* C9 witness: a queue started at an anchor that is not in the returned list
C9_Witness ==
    /\ lastOp.op = "_loadQueue" /\ lastOp.flag /\ lastOp.n = MaxQueueLen
    /\ _queue # None /\ _queue[1].currentIndex = 0

\* C22: the answer of /api/playlist-contents for _startQueue(videoId, ...) is
\* written to _queue only if currentVideoId is still videoId when it is
\* written, whenever the user navigated or stopped before, the time
\* resp.json() takes included.
C22_QueueWrittenForCurrentVideo ==
    [][\A c \in queueChains \ queueChains' :
          (lastOp'.op = "_loadQueue" /\ lastOp'.n > 0) => currentVideoId = c.video]_vars

\* C26: when the user goes to a video outside the queue (a plain card of
\* the list, a plain related card, or a history entry), the queue becomes
\* null.
C26_QueueClearedOnLeaving ==
    [][(/\ lastOp'.op = "playVideo"
        /\ _queue # None
        /\ \A i \in 1..Len(_queue[1].videos) : _queue[1].videos[i] # currentVideoId')
       => _queue' = None]_vars

\* C31: _playQueueItem(index) with a queue and 0 <= index < length leaves
\* currentIndex = index and currentVideoId = videos[index]; with any other
\* index, or without a queue, it changes neither the queue nor the session.
C31_PlayQueueItem ==
    [][lastOp'.op = "_playQueueItem"
       => IF /\ _queue # None
             /\ lastOp'.n >= 0 /\ lastOp'.n < Len(_queue[1].videos)
          THEN /\ _queue' # None
               /\ _queue'[1].currentIndex = lastOp'.n
               /\ _queue'[1].videos = _queue[1].videos
               /\ currentVideoId' = videoAt(_queue[1], lastOp'.n)
          ELSE UNCHANGED <<_queue, queuePosition, playerVars>>]_vars

\* C31 witness: a click on the second item of a queue that was at its first
C31_Witness ==
    /\ lastOp.op = "_playQueueItem" /\ lastOp.n = 1
    /\ _queue # None /\ _queue[1].currentIndex = 1
    /\ Len(_queue[1].videos) = MaxQueueLen
    /\ _queue[1].videos[1] # _queue[1].videos[2]
    /\ currentVideoId = videoAt(_queue[1], 1)

\* C32: whenever currentVideoId is the id of one of the queue's videos,
\* it is the id of videos[currentIndex]: every load of a queue member brings
\* currentIndex to it.
C32_IndexFollowsVideo ==
    (/\ _queue # None
     /\ \E i \in 1..Len(_queue[1].videos) : _queue[1].videos[i] = currentVideoId)
    => videoAt(_queue[1], _queue[1].currentIndex) = currentVideoId

\* C40: once the playlist response of the last _startQueue is written, no
\* later response replaces it by the queue of another playlist, so that with
\* all responses arrived the queue is the one of the last start; and an 'ended'
\* event between a _startQueue and its response neither loads a video nor
\* writes the queue or its position text from the previous queue.
C40_LastStartWins ==
    [][/\ \A c \in queueChains \ queueChains' :
            (/\ lastOp'.op = "_loadQueue" /\ lastOp'.n > 0
             /\ _queue # None /\ _queue[1].playlistId = startedPlaylist)
            => _queue'[1].playlistId = startedPlaylist
       /\ (/\ lastOp'.op = "ended"
           /\ _queue # None /\ _queue[1].playlistId # startedPlaylist
           /\ \E c \in queueChains : c.n = loads /\ c.video = currentVideoId)
          => UNCHANGED <<_queue, queuePosition, currentVideoId, loads>>]_vars

-----------------------------------------------------------------------------
(* Quality selection (app.js) *)

Heights == {240, 480, 720, 1080}
PreferredHeights == {100, 240, 900, 1080, 4000}
\* the level lists an engine may report, in the engine's order
LevelLists == SeqsUpTo(Heights, MaxLevels)

\* Math.max() and Math.min() of no arguments
MinusInfinity == -1000000
Infinity == 1000000

RECURSIVE MathMax(_)
MathMax(hs) ==
    IF Len(hs) = 0 THEN MinusInfinity
    ELSE LET m == MathMax(Tail(hs)) IN IF Head(hs) > m THEN Head(hs) ELSE m

RECURSIVE MathMin(_)
MathMin(hs) ==
    IF Len(hs) = 0 THEN Infinity
    ELSE LET m == MathMin(Tail(hs)) IN IF Head(hs) < m THEN Head(hs) ELSE m

\* getTargetQuality with Math.min in place of Math.max
getTargetQuality_minBelow(heights, preferred) ==
    IF \E i \in 1..Len(heights) : heights[i] = preferred THEN preferred
    ELSE LET below == SelectSeq(heights, LAMBDA h : h <= preferred)
         IN  IF Len(below) > 0 THEN MathMin(below) ELSE MathMin(heights)

getTargetQuality(heights, preferred) ==
    IF \E i \in 1..Len(heights) : heights[i] = preferred THEN preferred
    ELSE LET below == SelectSeq(heights, LAMBDA h : h <= preferred)
         IN  IF Len(below) > 0 THEN MathMax(below) ELSE MathMin(heights)

\* Array.prototype.sort((a, b) => a.height - b.height): a stable sort
RECURSIVE insertByHeight(_, _)
insertByHeight(sorted, q) ==
    IF Len(sorted) = 0 THEN <<q>>
    ELSE IF q.height < sorted[Len(sorted)].height
    THEN Append(insertByHeight(SubSeq(sorted, 1, Len(sorted) - 1), q), sorted[Len(sorted)])
    ELSE Append(sorted, q)

RECURSIVE sortByHeight(_)
sortByHeight(qs) ==
    IF Len(qs) = 0 THEN <<>>
    ELSE insertByHeight(sortByHeight(SubSeq(qs, 1, Len(qs) - 1)), qs[Len(qs)])

\* buildQualitiesDash() / buildQualitiesHls() for an engine with these levels;
\* qualityIndex counts from 0 in the engine's order
buildQualities(levels) ==
    sortByHeight([i \in 1..Len(levels) |-> [height |-> levels[i], qualityIndex |-> i - 1]])

\* videoQualities.map(q => q.height)
heightsOf(qualities) == [i \in 1..Len(qualities) |-> qualities[i].height]

\* the choice of the target quality at engine-ready
targetQualityStep ==
    /\ lastOp.op # "getTargetQuality"
    /\ lastOp' = Op("getTargetQuality", 0, 0, FALSE)
    /\ currentActiveHeight' = getTargetQuality(heightsOf(videoQualities), preferredQuality)
    /\ UNCHANGED <<listVars, navVars, queueVars, profileVars, mediaVars, subtitleVars>>
    /\ UNCHANGED <<currentVideoId, dashPlayer, hlsPlayer, currentPlayerType,
                   currentAudioLang, hlsAudioTracks, currentVideoChannelId, audioBtnContainer,
                   preferredQuality, videoQualities, qualityMenu, qualityBtnDisabled, pendingSeek, audioMenu,
                   engines, infoChains, loads>>

\* every non-empty quality list with every preference
InitQuality ==
    /\ InitList /\ InitNav /\ InitQueue /\ InitMedia /\ InitProfile
    /\ InitSubtitle
    /\ lastOp = NoOp
    /\ currentVideoId = Null
    /\ dashPlayer = 0
    /\ hlsPlayer = 0
    /\ currentPlayerType = Null
    /\ currentAudioLang = Null
    /\ hlsAudioTracks = <<>>
    /\ currentVideoChannelId = Null
    /\ audioBtnContainer = FALSE
    /\ currentActiveHeight = 0
    /\ pendingSeek = None
    /\ audioMenu = <<>>
    /\ engines = <<>>
    /\ infoChains = {}
    /\ loads = 0
    /\ preferredQuality \in PreferredHeights
    /\ \E levels \in LevelLists \ {<<>>} : videoQualities = buildQualities(levels)
    /\ qualityMenu = reverse(heightsOf(videoQualities))
    /\ qualityBtnDisabled = FALSE

SpecQuality == InitQuality /\ [][targetQualityStep]_vars

AvailableHeights == {videoQualities[i].height : i \in 1..Len(videoQualities)}
NotAbovePreferred == {h \in AvailableHeights : h <= preferredQuality}

\* C6: the target quality is the preferred height if available, else the
\* greatest available height not above it, else the smallest available
\* height; it is always an available height.
C6_TargetQuality ==
    lastOp.op = "getTargetQuality" =>
        /\ currentActiveHeight \in AvailableHeights
        /\ preferredQuality \in AvailableHeights => currentActiveHeight = preferredQuality
        /\ (preferredQuality \notin AvailableHeights /\ NotAbovePreferred # {})
              => /\ currentActiveHeight \in NotAbovePreferred
                 /\ \A h \in NotAbovePreferred : h <= currentActiveHeight
        /\ NotAbovePreferred = {}
              => \A h \in AvailableHeights : currentActiveHeight <= h
        /\ heightsOf(videoQualities) = <<240, 480, 720, 1080>> =>
              /\ preferredQuality = 900 => currentActiveHeight = 720
              /\ preferredQuality = 1080 => currentActiveHeight = 1080
              /\ preferredQuality = 4000 => currentActiveHeight = 1080
        /\ (heightsOf(videoQualities) = <<240, 480>> /\ preferredQuality = 100)
              => currentActiveHeight = 240

\* C6 witness: 720 was chosen from 240, 480, 720, 1080 for the preference 900
C6_Witness ==
    /\ lastOp.op = "getTargetQuality"
    /\ heightsOf(videoQualities) = <<240, 480, 720, 1080>>
    /\ preferredQuality = 900
    /\ currentActiveHeight = 720

-----------------------------------------------------------------------------
(* Position persistence on its own: a loaded video whose transport moves,  *)
(* the debounced save of app.js and the save of profiles.js.               *)

\* durations and transport times, in hundredths of a second
Durations == {0, 10000, 100000}
TimeMarks == {0, 300, 500, 510, 7000, 7100, 9500, 9510, 9600, 94000, 96000}

\* the 'timeupdate' listener, after the transport moved to t
timeupdate(t) ==
    /\ \E e \in LiveEngines : engines[e].ready
    /\ duration = 0 \/ t <= duration
    /\ t # currentTime
    /\ lastOp' = NoOp
    /\ currentTime' = t
    /\ positionSaveTimer' = TRUE
    /\ UNCHANGED <<listVars, navVars, queueVars, sessionVars, profileVars,
                   subtitleVars, paused, duration, sessionStorage, restoreCalls>>

\* the callback of positionSaveTimer; lastOp keeps the stored text it found
positionSaveTimerFired ==
    /\ positionSaveTimer
    /\ lastOp' = Op("savePosition", 0,
                    IF currentVideoId = Null THEN NoPos ELSE sessionStorage[currentVideoId],
                    FALSE)
    /\ sessionStorage' = savePosition(sessionStorage)
    /\ positionSaveTimer' = FALSE
    /\ UNCHANGED <<listVars, navVars, queueVars, sessionVars, profileVars,
                   subtitleVars, currentTime, paused, duration, restoreCalls>>

\* the position savePositionToAPI posts, in tenths of a second; NoPos when it
\* posts nothing
postedPosition ==
    IF ~currentProfile \/ currentVideoId = Null \/ currentTime = 0 THEN NoPos
    ELSE IF nearEnd(currentTime, duration) THEN 0
    ELSE IF currentTime > MinSaveSeconds * 100 THEN toFixed1(currentTime)
    ELSE NoPos

\* savePositionToAPI(); the POST reaches the server or fails
savePositionToAPI ==
    /\ currentVideoId # Null
    /\ lastOp' = Op("savePositionToAPI", 0, postedPosition, postedPosition # NoPos)
    /\ \E delivered \in BOOLEAN :
         apiPosition' = IF delivered /\ postedPosition # NoPos
                        THEN [apiPosition EXCEPT ![currentVideoId] = postedPosition]
                        ELSE apiPosition
    /\ UNCHANGED <<listVars, navVars, queueVars, playerVars, currentProfile,
                   apiPreferences>>

\* a video loaded and playing on the manifest engine
InitPosition ==
    /\ InitList /\ InitQueue /\ InitSubtitle
    /\ lastOp = NoOp
    /\ currentVideoId \in Videos
    /\ view = "video"
    /\ cachedHasMore = TRUE
    /\ listViewCache = None
    /\ historyVideos = {currentVideoId}
    /\ engines = <<[Engine("dash", currentVideoId, <<720>>) EXCEPT !.ready = TRUE]>>
    /\ dashPlayer = 1
    /\ hlsPlayer = 0
    /\ currentPlayerType = "dash"
    /\ currentAudioLang = Null
    /\ hlsAudioTracks = <<>>
    /\ currentVideoChannelId = Null
    /\ audioBtnContainer = FALSE
    /\ preferredQuality = 1080
    /\ currentActiveHeight = 720
    /\ videoQualities = buildQualities(<<720>>)
    /\ qualityMenu = reverse(heightsOf(videoQualities))
    /\ qualityBtnDisabled = FALSE
    /\ pendingSeek = None
    /\ audioMenu = <<>>
    /\ infoChains = {}
    /\ loads = 1
    /\ currentTime = 0
    /\ paused = FALSE
    /\ duration \in Durations
    /\ positionSaveTimer = FALSE
    /\ sessionStorage = [v \in Videos |-> NoPos]
    /\ restoreCalls = 1
    /\ currentProfile \in BOOLEAN
    /\ apiPosition = [v \in Videos |-> NoPos]
    /\ apiPreferences = NoPreferences

NextPosition ==
    \/ \E t \in TimeMarks : timeupdate(t)
    \/ positionSaveTimerFired
    \/ savePositionToAPI

SpecPosition == InitPosition /\ [][NextPosition]_vars

\* what a save did to the stored position of the current video: "cleared",
\* "persisted" with the value, or "nothing"
SaveCleared == sessionStorage'[currentVideoId] = NoPos
SavePersisted(t) == sessionStorage'[currentVideoId] = toFixed1(t)
SaveWroteNothing == sessionStorage' = sessionStorage

\* C7 as stated: for a duration of 100 s a save at 96 s clears the saved
\* position, a save at 71 s persists 71 and a save at 3 s writes nothing.
C7_AsStated ==
    [][(lastOp'.op = "savePosition" /\ duration = 10000) =>
          /\ currentTime = 9600 => SaveCleared
          /\ currentTime = 7100 => SavePersisted(7100)
          /\ currentTime = 300 => SaveWroteNothing]_vars

\* C7 amended: for a duration of 100 s a save at 96 s clears the saved
\* position, a save at 71 s clears it too (71 is within 30 s of the end),
\* a save at 70 s persists 70 and a save at 3 s writes nothing; the server
\* save posts 0 at 96 s and at 71 s, 70 at 70 s and nothing at 3 s.
C7_SaveOrClear ==
    [][/\ (lastOp'.op = "savePosition" /\ duration = 10000) =>
             /\ currentTime = 9600 => SaveCleared
             /\ currentTime = 7100 => SaveCleared
             /\ currentTime = 7000 => SavePersisted(7000)
             /\ currentTime = 300 => SaveWroteNothing
       /\ (lastOp'.op = "savePositionToAPI" /\ duration = 10000 /\ currentProfile) =>
             /\ currentTime = 9600 => lastOp'.n = 0
             /\ currentTime = 7100 => lastOp'.n = 0
             /\ currentTime = 7000 => lastOp'.n = 700
             /\ currentTime = 300 => ~lastOp'.flag]_vars

\* C7 witness: with 70.0 stored, a save at 71 s of 100 s removed it
C7_Witness ==
    /\ lastOp.op = "savePosition" /\ lastOp.n = 700
    /\ duration = 10000 /\ currentTime = 7100
    /\ sessionStorage[currentVideoId] = NoPos

\* C27: while no profile is active no playback position is persisted: no
\* step writes or clears a stored position, in the browser or on the server.
C27_NoAnonymousPosition ==
    [][~currentProfile => UNCHANGED <<sessionStorage, apiPosition>>]_vars

-----------------------------------------------------------------------------
(* Auto-advance on its own: a queue whose current item is loaded and       *)
(* playing, the transport, the debounced save and the 'ended' event. As in *)
(* queue playback the info response of the next item is left out. The      *)
(* media element emits 'ended' whenever playback reaches the end, hence    *)
(* the weak fairness of that event.                                        *)

InitAdvance ==
    /\ InitList /\ InitProfile /\ InitSubtitle
    /\ lastOp = NoOp
    /\ \E videos \in QueueVideos, playlistId \in Playlists :
         \E index \in 0..(Len(videos) - 1) :
            /\ _queue = Some([videos |-> videos, currentIndex |-> index,
                              playlistId |-> playlistId])
            /\ currentVideoId = videoAt(_queue[1], index)
    /\ queuePosition = positionText(_queue[1])
    /\ queueChains = {}
    /\ startedPlaylist = Null
    /\ view = "video"
    /\ cachedHasMore = TRUE
    /\ listViewCache = Some([mode |-> "search", query |-> "", channelId |-> Null,
                             cursor |-> NoCursor, html |-> <<>>,
                             searchRawResults |-> <<>>])
    /\ historyVideos = {currentVideoId}
    /\ engines = <<[Engine("dash", currentVideoId, <<720>>) EXCEPT !.ready = TRUE]>>
    /\ dashPlayer = 1
    /\ hlsPlayer = 0
    /\ currentPlayerType = "dash"
    /\ currentAudioLang = Null
    /\ hlsAudioTracks = <<>>
    /\ currentVideoChannelId = Null
    /\ audioBtnContainer = FALSE
    /\ preferredQuality = 1080
    /\ currentActiveHeight = 720
    /\ videoQualities = buildQualities(<<720>>)
    /\ qualityMenu = reverse(heightsOf(videoQualities))
    /\ qualityBtnDisabled = FALSE
    /\ pendingSeek = None
    /\ audioMenu = <<>>
    /\ infoChains = {}
    /\ loads = 1
    /\ currentTime = 0
    /\ paused = FALSE
    /\ duration \in Durations
    /\ positionSaveTimer = FALSE
    /\ sessionStorage = [v \in Videos |-> NoPos]
    /\ restoreCalls = 1

NextAdvance ==
    \/ \E t \in TimeMarks : timeupdate(t)
    \/ positionSaveTimerFired
    \/ ended

SpecAdvance == InitAdvance /\ [][NextAdvance]_vars /\ WF_vars(ended)

-----------------------------------------------------------------------------
(* Subtitles (subtitles.js) *)

\* a subtitle track of /api/info; the label is modelled by its rank in
\* localeCompare order, 0 for the empty label
Track(lang, label) == [lang |-> lang, label |-> label]

\* lang.startsWith(prefix + '-')
startsWithDash(lang, prefix) ==
    Len(lang) > Len(prefix) /\ SubSeq(lang, 1, Len(prefix)) = prefix

\* the index of the first track of tracks with a language in langs, 0 if none
\* (Array.prototype.find)
findTrack(tracks, langs) ==
    IF \E i \in DOMAIN tracks : tracks[i].lang \in langs
    THEN CHOOSE i \in DOMAIN tracks :
            /\ tracks[i].lang \in langs
            /\ \A j \in 1..(i - 1) : tracks[j].lang \notin langs
    ELSE 0

\* the languages of tracks that start with lang and a dash
dashLangs(tracks, lang) ==
    {tracks[i].lang : i \in {j \in DOMAIN tracks : startsWithDash(tracks[j].lang, lang)}}

\* activateTrack(trackInfo): the <track> elements are replaced by a new one,
\* whose load starts; the button shows the language (with an ellipsis)
activateTrack(trackInfo) ==
    /\ trackEl' = Some([lang |-> trackInfo.lang, video |-> currentVideoId])
    /\ trackLoads' = trackLoads \cup {[lang |-> trackInfo.lang, video |-> currentVideoId]}
    /\ subtitleBtn' = trackInfo.lang

\* the track applySubtitlePreference picks for the saved language: the exact
\* language, else the first track whose language starts with it and a dash
preferredTrack(tracks, saved) ==
    IF findTrack(tracks, {saved}) # 0
    THEN findTrack(tracks, {saved})
    ELSE findTrack(tracks, dashLangs(tracks, saved))

\* applySubtitlePreference() with the track list tracks and the <track>
\* element el in place when it is called
applySubtitlePreference(tracks, el) ==
    IF subtitle_lang = NoLang \/ subtitle_lang = OffLang
    THEN /\ subtitleBtn' = NoLang
         /\ trackEl' = el
         /\ UNCHANGED trackLoads
    ELSE IF <<currentVideoId, subtitle_lang>> \in failedSubtitles
    THEN /\ subtitleBtn' = NoLang
         /\ trackEl' = el
         /\ UNCHANGED trackLoads
    ELSE IF el # None /\ el[1].lang = subtitle_lang
    THEN \* the element of this language is kept and its text track shown
         /\ subtitleBtn' = subtitle_lang
         /\ trackEl' = el
         /\ UNCHANGED trackLoads
    ELSE IF preferredTrack(tracks, subtitle_lang) # 0
    THEN activateTrack(tracks[preferredTrack(tracks, subtitle_lang)])
    ELSE /\ subtitleBtn' = NoLang
         /\ trackEl' = el
         /\ UNCHANGED trackLoads

\* loadSubtitleTracks(videoId, tracks)
loadSubtitleTracks(tracks) ==
    /\ subtitleTracks' = tracks
    /\ IF Len(tracks) = 0
       THEN /\ subtitleBtnContainer' = FALSE
            /\ trackEl' = None
            /\ UNCHANGED <<trackLoads, subtitleBtn>>
       ELSE /\ subtitleBtnContainer' = TRUE
            /\ applySubtitlePreference(tracks, None)

\* the language the menu marks as active: the saved one unless it is "off"
activeLangOf(saved) ==
    IF saved # NoLang /\ saved # OffLang THEN saved ELSE NoLang

\* the first entry of the menu: { lang: null, label: 'Off' }
offItem == Track(NoLang, 0)

\* the languages of tracks that are English: 'en' or 'en-...'
englishLangs(tracks) == {<<"en">>} \cup dashLangs(tracks, <<"en">>)

\* Array.prototype.sort with (a.label || '').localeCompare(b.label || ''): a
\* stable sort by label
insertByLabel(sorted, t) ==
    LET k == Cardinality({i \in DOMAIN sorted : sorted[i].label <= t.label})
    IN  SubSeq(sorted, 1, k) \o <<t>> \o SubSeq(sorted, k + 1, Len(sorted))

RECURSIVE sortByLabel(_)
sortByLabel(ts) ==
    IF ts = <<>> THEN <<>>
    ELSE insertByLabel(sortByLabel(SubSeq(ts, 1, Len(ts) - 1)), ts[Len(ts)])

\* renderSubtitleMenu without the promotion of the saved language
menuItems_noActive(tracks, saved) ==
    LET e == findTrack(tracks, englishLangs(tracks))
        promoted == IF e # 0 THEN {tracks[e].lang} ELSE {}
        rest == sortByLabel(SelectSeq(tracks, LAMBDA t : t.lang \notin promoted))
    IN  <<offItem>> \o (IF e # 0 THEN <<tracks[e]>> ELSE <<>>) \o rest

\* the items renderSubtitleMenu writes for the tracks and the saved language
menuItems(tracks, saved) ==
    LET activeLang == activeLangOf(saved)
        a == IF activeLang # NoLang THEN findTrack(tracks, {activeLang}) ELSE 0
        e == findTrack(tracks, englishLangs(tracks))
        english == e # 0 /\ tracks[e].lang # activeLang
        promoted == {activeLang} \cup (IF english THEN {tracks[e].lang} ELSE {})
        rest == sortByLabel(SelectSeq(tracks, LAMBDA t : t.lang \notin promoted))
    IN  <<offItem>>
        \o (IF a # 0 THEN <<tracks[a]>> ELSE <<>>)
        \o (IF english THEN <<tracks[e]>> ELSE <<>>)
        \o rest

\* click on #subtitle-btn: renderSubtitleMenu()
renderSubtitleMenu ==
    /\ view = "video"
    /\ subtitleBtnContainer
    /\ lastOp' = Op("renderSubtitleMenu", 0, 0, FALSE)
    /\ subtitleMenu' = menuItems(subtitleTracks, subtitle_lang)
    /\ UNCHANGED <<subtitleTracks, failedSubtitles, subtitle_lang, trackEl,
                   trackLoads, subtitleBtn, subtitleBtnContainer, subtitleOffer,
                   erroredTracks>>
    /\ UNCHANGED <<listVars, navVars, queueVars, sessionVars, mediaVars, profileVars>>

\* selectSubtitle(lang): click on an option of the subtitle menu; the "Off"
\* option has the empty data-lang
\* savePreference(key, value): the PUT of /api/profiles/preferences, taken as
\* delivered; nothing is sent without a profile
savePreference(key, value) ==
    apiPreferences' = IF currentProfile THEN [apiPreferences EXCEPT ![key] = value]
                      ELSE apiPreferences

selectSubtitle(lang) ==
    /\ view = "video"
    /\ subtitleBtnContainer
    /\ lang \in {subtitleMenu[i].lang : i \in DOMAIN subtitleMenu}
    /\ lastOp' = Op("selectSubtitle", 0, 0, FALSE)
    /\ subtitle_lang' = IF lang = NoLang THEN OffLang ELSE lang
    /\ savePreference("subtitle_lang", IF lang = NoLang THEN OffLang ELSE lang)
    /\ IF lang = NoLang
       THEN /\ trackEl' = None
            /\ subtitleBtn' = NoLang
            /\ UNCHANGED trackLoads
       ELSE IF findTrack(subtitleTracks, {lang}) # 0
       THEN activateTrack(subtitleTracks[findTrack(subtitleTracks, {lang})])
       ELSE UNCHANGED <<trackEl, trackLoads, subtitleBtn>>
    /\ UNCHANGED <<subtitleTracks, failedSubtitles, subtitleBtnContainer,
                   subtitleMenu, subtitleOffer, erroredTracks>>
    /\ UNCHANGED <<listVars, navVars, queueVars, sessionVars, mediaVars,
                   currentProfile, apiPosition>>

\* the 'load' event of the <track> element l: updateSubtitleBtn(trackInfo.lang)
trackLoad(l) ==
    /\ l \in trackLoads
    /\ lastOp' = Op("trackLoad", 0, 0, FALSE)
    /\ trackLoads' = trackLoads \ {l}
    /\ subtitleBtn' = l.lang
    /\ UNCHANGED <<subtitleTracks, failedSubtitles, subtitle_lang, trackEl,
                   subtitleBtnContainer, subtitleMenu, subtitleOffer, erroredTracks>>
    /\ UNCHANGED <<listVars, navVars, queueVars, sessionVars, mediaVars, profileVars>>

\* the 'error' event of the <track> element l; the handler reads
\* currentVideoId when it runs
trackError(l) ==
    /\ l \in trackLoads
    /\ lastOp' = Op("trackError", 0, 0, FALSE)
    /\ trackLoads' = trackLoads \ {l}
    /\ erroredTracks' = erroredTracks \cup {l}
    /\ failedSubtitles' = failedSubtitles \cup {<<currentVideoId, l.lang>>}
    /\ subtitle_lang' = IF subtitle_lang = l.lang THEN OffLang ELSE subtitle_lang
    /\ subtitleBtn' = NoLang
    /\ UNCHANGED <<subtitleTracks, trackEl, subtitleBtnContainer, subtitleMenu,
                   subtitleOffer>>
    /\ UNCHANGED <<listVars, navVars, queueVars, sessionVars, mediaVars, profileVars>>

-----------------------------------------------------------------------------
(* The subtitle menu on its own: a video with up to MaxTracks subtitle     *)
(* tracks in any order and with any labels, and any saved language.        *)

SubtitleLangs == {<<"en">>, <<"en", "GB">>, <<"fr">>, <<"de">>}
\* the values of localStorage 'subtitle_lang': none, "off", a language of
\* the video or not
SavedLangs == {NoLang, OffLang, <<"es">>} \cup SubtitleLangs
Labels == 0..MaxLabel

langsOf(tracks) == {tracks[i].lang : i \in DOMAIN tracks}

\* the track lists of n tracks with distinct languages
RECURSIVE TrackListsOfLen(_)
TrackListsOfLen(n) ==
    IF n = 0 THEN {<<>>}
    ELSE UNION {{Append(ts, Track(l, b)) : l \in SubtitleLangs \ langsOf(ts), b \in Labels}
                : ts \in TrackListsOfLen(n - 1)}

TrackLists == UNION {TrackListsOfLen(n) : n \in 1..MaxTracks}

InitSubtitleMenu ==
    /\ InitList /\ InitQueue /\ InitMedia /\ InitProfile
    /\ lastOp = NoOp
    /\ view = "video"
    /\ cachedHasMore = TRUE
    /\ listViewCache = None
    /\ currentVideoId = "v1"
    /\ historyVideos = {"v1"}
    /\ dashPlayer = 1
    /\ hlsPlayer = 0
    /\ engines = <<Engine("dash", "v1", <<>>)>>
    /\ currentPlayerType = "dash"
    /\ currentAudioLang = Null
    /\ hlsAudioTracks = <<>>
    /\ currentVideoChannelId = Null
    /\ audioBtnContainer = FALSE
    /\ preferredQuality = 1080
    /\ currentActiveHeight = 0
    /\ videoQualities = <<>>
    /\ qualityMenu = <<>>
    /\ qualityBtnDisabled = (currentVideoId # Null)
    /\ pendingSeek = None
    /\ audioMenu = <<>>
    /\ infoChains = {}
    /\ loads = 1
    /\ subtitleTracks \in TrackLists
    /\ subtitle_lang \in SavedLangs
    /\ failedSubtitles = {}
    /\ trackEl = None
    /\ trackLoads = {}
    /\ subtitleBtn = NoLang
    /\ subtitleBtnContainer = TRUE
    /\ subtitleMenu = <<>>
    /\ subtitleOffer = [v \in Videos |-> IF v = "v1" THEN subtitleTracks ELSE <<>>]
    /\ erroredTracks = {}

SpecSubtitleMenu == InitSubtitleMenu /\ [][renderSubtitleMenu]_vars

(* Properties of the subtitle menu *)

isEnglish(lang) == lang = <<"en">> \/ startsWithDash(lang, <<"en">>)

\* the menu m is Off, then the tracks of head, then tracks in label order
menuShape(m, head) ==
    /\ Len(m) >= 1 + Len(head)
    /\ m[1].lang = NoLang
    /\ \A i \in DOMAIN head : m[i + 1] = head[i]
    /\ \A i, j \in (Len(head) + 2)..Len(m) : i < j => m[i].label <= m[j].label

-----------------------------------------------------------------------------
(* The playback session (app.js): engines, audio switch, ready handlers *)

\* the level lists the engines of the model report
EngineLevels == {<<>>, <<1080, 720>>}
\* the answers of /api/hls/audio-tracks
AudioTrackLists == {<<"original">>, <<"original", "fr">>}
\* duration of the media once an engine is ready, and a transport time
MediaDuration == 10000
PlayerTimes == {4000, 6000}

\* a new source is attached to the media element: its load algorithm resets
\* the transport and pauses it
mediaLoad ==
    /\ currentTime' = 0
    /\ paused' = TRUE
    /\ duration' = 0

\* startDashPlayer(videoId) with the engines es left by the caller
startDashPlayer(videoId, es, levels) ==
    /\ currentPlayerType' = "dash"
    /\ engines' = Append(es, Engine("dash", videoId, levels))
    /\ dashPlayer' = Len(es) + 1
    /\ mediaLoad

\* startHlsPlayer(videoId, manifestUrl) with the engines es left by the caller
startHlsPlayer(videoId, es, levels) ==
    /\ currentPlayerType' = "hls"
    /\ engines' = Append(es, Engine("hls", videoId, levels))
    /\ hlsPlayer' = Len(es) + 1
    /\ mediaLoad

\* the /api/info request of playVideo settles: the .then callback, or .catch
infoSettled(c) ==
    /\ c \in infoChains /\ c.kind = "info"
    /\ Len(engines) < MaxEngines
    /\ lastOp' = NoOp
    /\ \E outcome \in {"failed", "single", "multi"}, levels \in EngineLevels :
         /\ startDashPlayer(c.video, engines, levels)
         /\ infoChains' = (infoChains \ {c}) \cup
               (IF outcome = "multi" THEN {[c EXCEPT !.kind = "audio"]} ELSE {})
         /\ IF outcome = "failed"
            THEN UNCHANGED <<currentVideoChannelId, subtitleTracks,
                             subtitleBtnContainer, trackEl, trackLoads, subtitleBtn>>
            ELSE /\ \E channel_id \in Channels \cup {Null} :
                      currentVideoChannelId' =
                         (IF channel_id # Null THEN channel_id ELSE currentVideoChannelId)
                 /\ loadSubtitleTracks(subtitleOffer[c.video])
    /\ UNCHANGED <<failedSubtitles, subtitle_lang, subtitleMenu, subtitleOffer,
                   erroredTracks>>
    /\ UNCHANGED <<currentVideoId, hlsPlayer, currentAudioLang, hlsAudioTracks,
                   audioBtnContainer, preferredQuality, currentActiveHeight,
                   videoQualities, qualityMenu, qualityBtnDisabled, pendingSeek, audioMenu, loads>>
    /\ UNCHANGED <<positionSaveTimer, sessionStorage, restoreCalls>>
    /\ UNCHANGED <<listVars, navVars, queueVars, profileVars>>

\* the /api/hls/audio-tracks request settles
audioTracksSettled(c) ==
    /\ c \in infoChains /\ c.kind = "audio"
    /\ lastOp' = NoOp
    /\ infoChains' = infoChains \ {c}
    /\ \E ok \in BOOLEAN, tracks \in AudioTrackLists :
         IF ok
         THEN /\ hlsAudioTracks' = tracks
              /\ IF Len(tracks) > 1
                 THEN /\ audioBtnContainer' = TRUE
                      /\ currentAudioLang' = "original"
                      /\ audioMenu' = tracks
                 ELSE UNCHANGED <<audioBtnContainer, currentAudioLang, audioMenu>>
         ELSE UNCHANGED <<hlsAudioTracks, audioBtnContainer, currentAudioLang, audioMenu>>
    /\ UNCHANGED <<currentVideoId, currentVideoChannelId, dashPlayer, hlsPlayer,
                   currentPlayerType, preferredQuality, currentActiveHeight,
                   videoQualities, qualityMenu, qualityBtnDisabled, pendingSeek, engines, loads>>
    /\ UNCHANGED <<listVars, navVars, queueVars, mediaVars, subtitleVars, profileVars>>

\* switchAudioLanguage(lang) past its guard
switchAudioLanguage(lang, levels) ==
    /\ pendingSeek' = Some([time |-> currentTime, play |-> ~paused])
    /\ trackEl' = None
    /\ currentAudioLang' = lang
    /\ IF lang = "original"
       THEN /\ hlsPlayer' = 0
            /\ startDashPlayer(currentVideoId, destroy(engines, {hlsPlayer}), levels)
       ELSE /\ dashPlayer' = 0
            /\ startHlsPlayer(currentVideoId, destroy(engines, {dashPlayer, hlsPlayer}), levels)

\* click on an option of the audio menu
audioOptionClick(lang) ==
    /\ view = "video"
    /\ audioBtnContainer
    /\ lang \in Range(audioMenu)
    /\ lastOp' = Op("audioOptionClick", 0, 0, lang # currentAudioLang /\ currentVideoId # Null)
    /\ IF lang = currentAudioLang \/ currentVideoId = Null
       THEN UNCHANGED <<pendingSeek, currentAudioLang, dashPlayer, hlsPlayer,
                        currentPlayerType, engines, currentTime, paused, duration,
                        trackEl>>
       ELSE /\ Len(engines) < MaxEngines
            /\ \E levels \in EngineLevels : switchAudioLanguage(lang, levels)
    /\ UNCHANGED <<subtitleTracks, failedSubtitles, subtitle_lang, trackLoads,
                   subtitleBtn, subtitleBtnContainer, subtitleMenu, subtitleOffer,
                   erroredTracks>>
    /\ UNCHANGED <<currentVideoId, hlsAudioTracks, currentVideoChannelId, audioBtnContainer,
                   preferredQuality, currentActiveHeight, videoQualities, qualityMenu, qualityBtnDisabled,
                   audioMenu, infoChains, loads>>
    /\ UNCHANGED <<positionSaveTimer, sessionStorage, restoreCalls>>
    /\ UNCHANGED <<listVars, navVars, queueVars, profileVars>>

\* what the engine with this id reports as its video levels
levelsOf(id) == IF engines[id].ready THEN engines[id].levels ELSE <<>>

\* the ready handler of engine e from the quality list qs on: the target
\* quality, then pendingSeek or the stored position; playing says whether the
\* media plays when the handler starts, playElse whether the else branch
\* calls play()
readyHandler(e, qs, playing, playElse) ==
    /\ videoQualities' = qs
    /\ IF Len(qs) = 0
       THEN /\ paused' = ~playing
            /\ UNCHANGED <<qualityMenu, qualityBtnDisabled>>
            /\ UNCHANGED <<currentActiveHeight, pendingSeek, currentTime, restoreCalls>>
            /\ UNCHANGED <<trackEl, trackLoads, subtitleBtn>>
       ELSE /\ currentActiveHeight' = getTargetQuality(heightsOf(qs), preferredQuality)
            /\ qualityBtnDisabled' = FALSE
            /\ qualityMenu' = reverse(heightsOf(qs))
            /\ IF pendingSeek # None
               THEN /\ currentTime' = pendingSeek[1].time
                    /\ paused' = ~(playing \/ pendingSeek[1].play)
                    /\ applySubtitlePreference(subtitleTracks, trackEl)
                    /\ pendingSeek' = None
                    /\ UNCHANGED restoreCalls
               ELSE /\ paused' = ~(playing \/ playElse)
                    /\ currentTime' = restorePosition(engines[e].video, currentTime)
                    /\ restoreCalls' = restoreCalls + 1
                    /\ UNCHANGED <<pendingSeek, trackEl, trackLoads, subtitleBtn>>

\* STREAM_INITIALIZED of the dash engine e.  initialize(..., true) makes the
\* engine start playback by itself.  The handler reads the global dashPlayer:
\* with none it throws at buildQualitiesDash.
dashReady(e) ==
    /\ e \in LiveEngines /\ engines[e].kind = "dash" /\ ~engines[e].ready
    /\ lastOp' = Op("ready", 0, e, pendingSeek # None)
    /\ engines' = [engines EXCEPT ![e].ready = TRUE]
    /\ duration' = MediaDuration
    /\ IF dashPlayer = 0
       THEN /\ paused' = FALSE
            /\ UNCHANGED <<videoQualities, qualityMenu, qualityBtnDisabled, currentActiveHeight, pendingSeek,
                           currentTime, restoreCalls, trackEl, trackLoads,
                           subtitleBtn>>
       ELSE readyHandler(e, buildQualities(IF dashPlayer = e THEN engines[e].levels
                                           ELSE levelsOf(dashPlayer)),
                         TRUE, FALSE)
    /\ UNCHANGED <<currentVideoId, dashPlayer, hlsPlayer, currentPlayerType,
                   currentAudioLang, hlsAudioTracks, currentVideoChannelId, audioBtnContainer,
                   preferredQuality, audioMenu, infoChains, loads>>
    /\ UNCHANGED <<positionSaveTimer, sessionStorage>>
    /\ UNCHANGED <<subtitleTracks, failedSubtitles, subtitle_lang,
                   subtitleBtnContainer, subtitleMenu, subtitleOffer,
                   erroredTracks>>
    /\ UNCHANGED <<listVars, navVars, queueVars, profileVars>>

\* MANIFEST_PARSED of the hls engine e
hlsReady(e) ==
    /\ e \in LiveEngines /\ engines[e].kind = "hls" /\ ~engines[e].ready
    /\ lastOp' = Op("ready", 0, e, pendingSeek # None)
    /\ engines' = [engines EXCEPT ![e].ready = TRUE]
    /\ duration' = MediaDuration
    /\ IF hlsPlayer = 0
       THEN UNCHANGED <<videoQualities, qualityMenu, qualityBtnDisabled, currentActiveHeight, pendingSeek,
                        currentTime, paused, restoreCalls, trackEl, trackLoads,
                        subtitleBtn>>
       ELSE readyHandler(e, buildQualities(IF hlsPlayer = e THEN engines[e].levels
                                           ELSE levelsOf(hlsPlayer)),
                         FALSE, TRUE)
    /\ UNCHANGED <<currentVideoId, dashPlayer, hlsPlayer, currentPlayerType,
                   currentAudioLang, hlsAudioTracks, currentVideoChannelId, audioBtnContainer,
                   preferredQuality, audioMenu, infoChains, loads>>
    /\ UNCHANGED <<positionSaveTimer, sessionStorage>>
    /\ UNCHANGED <<subtitleTracks, failedSubtitles, subtitle_lang,
                   subtitleBtnContainer, subtitleMenu, subtitleOffer,
                   erroredTracks>>
    /\ UNCHANGED <<listVars, navVars, queueVars, profileVars>>

\* the fatal-error handler without the fallback to the dash engine
hlsFatalError_noFallback(e) ==
    /\ e \in LiveEngines /\ engines[e].kind = "hls"
    /\ Len(engines) < MaxEngines
    /\ hlsPlayer # 0
    /\ lastOp' = Op("hlsFatalError", 0, e, FALSE)
    /\ hlsPlayer' = 0
    /\ engines' = destroy(engines, {hlsPlayer})
    /\ UNCHANGED <<currentVideoId, dashPlayer, currentPlayerType, currentAudioLang,
                   hlsAudioTracks, currentVideoChannelId, audioBtnContainer, preferredQuality,
                   currentActiveHeight, videoQualities, qualityMenu, qualityBtnDisabled, pendingSeek, audioMenu,
                   infoChains, loads>>
    /\ UNCHANGED <<mediaVars, subtitleVars, listVars, navVars, queueVars, profileVars>>

\* a fatal ERROR of the hls engine e
hlsFatalError(e) ==
    /\ e \in LiveEngines /\ engines[e].kind = "hls"
    /\ Len(engines) < MaxEngines
    /\ hlsPlayer # 0
    /\ lastOp' = Op("hlsFatalError", 0, e, FALSE)
    /\ hlsPlayer' = 0
    /\ \E levels \in EngineLevels :
         startDashPlayer(engines[e].video, destroy(engines, {hlsPlayer}), levels)
    /\ UNCHANGED <<currentVideoId, currentAudioLang, hlsAudioTracks, currentVideoChannelId,
                   audioBtnContainer, preferredQuality, currentActiveHeight,
                   videoQualities, qualityMenu, qualityBtnDisabled, pendingSeek, audioMenu, infoChains, loads>>
    /\ UNCHANGED <<positionSaveTimer, sessionStorage, restoreCalls>>
    /\ UNCHANGED subtitleVars
    /\ UNCHANGED <<listVars, navVars, queueVars, profileVars>>

\* a fatal error of the dash engine e: startDashPlayer registers no handler
\* of the engine's error event, and the media element's 'error' listener only
\* writes to the console
dashFatalError(e) ==
    /\ e \in LiveEngines /\ engines[e].kind = "dash"
    /\ lastOp' = Op("dashFatalError", 0, e, FALSE)
    /\ UNCHANGED <<listVars, navVars, queueVars, playerVars, profileVars>>

\* what the page shows: the view, the grid, the tabs, the audio button and
\* menu, the quality button and menu, the queue position
renderedPage ==
    <<view, videoGrid, channelTabs, audioBtnContainer, audioMenu,
      currentActiveHeight, videoQualities, queuePosition>>

\* the user pauses or resumes the media
togglePlay ==
    /\ view = "video"
    /\ \E e \in LiveEngines : engines[e].ready
    /\ lastOp' = NoOp
    /\ paused' = ~paused
    /\ UNCHANGED <<listVars, navVars, queueVars, sessionVars, profileVars,
                   subtitleVars, currentTime, duration, positionSaveTimer,
                   sessionStorage, restoreCalls>>

Next ==
    \/ \E videoId \in Videos : navigateToVideo(videoId)
    \/ \E videoId \in Videos : popstateVideo(videoId)
    \/ popstateList
    \/ \E c \in infoChains : infoSettled(c)
    \/ \E c \in infoChains : audioTracksSettled(c)
    \/ \E lang \in {"original", "fr"} : audioOptionClick(lang)
    \/ \E e \in DOMAIN engines : dashReady(e)
    \/ \E e \in DOMAIN engines : hlsReady(e)
    \/ \E e \in DOMAIN engines : hlsFatalError(e)

Spec == Init /\ [][Next]_vars

(* Properties of the playback session *)

\* C1: at most one streaming engine is live.
C1_OneLiveEngine == Cardinality(LiveEngines) <= 1

-----------------------------------------------------------------------------
(* Audio switching on its own: a video that plays on the manifest engine   *)
(* and has two audio tracks; the user pauses, resumes, seeks and switches  *)
(* the audio language.                                                     *)

InitSwitch ==
    /\ InitList /\ InitQueue /\ InitProfile /\ InitSubtitle
    /\ lastOp = NoOp
    /\ currentVideoId \in Videos
    /\ view = "video"
    /\ cachedHasMore = TRUE
    /\ listViewCache = Some([mode |-> "search", query |-> "", channelId |-> Null,
                             cursor |-> NoCursor, html |-> <<>>,
                             searchRawResults |-> <<>>])
    /\ historyVideos = {currentVideoId}
    /\ engines = <<[Engine("dash", currentVideoId, <<1080, 720>>) EXCEPT !.ready = TRUE]>>
    /\ dashPlayer = 1
    /\ hlsPlayer = 0
    /\ currentPlayerType = "dash"
    /\ currentAudioLang = "original"
    /\ hlsAudioTracks = <<"original", "fr">>
    /\ currentVideoChannelId = "ch"
    /\ audioMenu = <<"original", "fr">>
    /\ audioBtnContainer = TRUE
    /\ preferredQuality = 1080
    /\ currentActiveHeight = 1080
    /\ videoQualities = buildQualities(<<1080, 720>>)
    /\ qualityMenu = reverse(heightsOf(videoQualities))
    /\ qualityBtnDisabled = FALSE
    /\ pendingSeek = None
    /\ infoChains = {}
    /\ loads = 1
    /\ currentTime = 0
    /\ paused = FALSE
    /\ duration = MediaDuration
    /\ positionSaveTimer = FALSE
    /\ sessionStorage = [v \in Videos |-> NoPos]
    /\ restoreCalls = 1

NextSwitch ==
    \/ togglePlay
    \/ \E t \in PlayerTimes : timeupdate(t)
    \/ positionSaveTimerFired
    \/ \E lang \in {"original", "fr"} : audioOptionClick(lang)
    \/ \E e \in DOMAIN engines : dashReady(e)
    \/ \E e \in DOMAIN engines : hlsReady(e)
    \/ \E e \in DOMAIN engines : hlsFatalError(e)
    \/ \E e \in DOMAIN engines : dashFatalError(e)
    \/ popstateList

SpecSwitch == InitSwitch /\ [][NextSwitch]_vars

-----------------------------------------------------------------------------
(* The quality menu.  qualityBtn's own click listener (app.js:659-663)     *)
(* changes only which menus are visible, which the model does not hold.    *)

\* videoQualities.find(q => q.height === height) finds an entry
hasHeight(qualities, height) ==
    \E i \in 1..Len(qualities) : qualities[i].height = height

\* videoQualities.find(q => q.qualityIndex === index) finds an entry
hasQualityIndex(qualities, index) ==
    \E i \in 1..Len(qualities) : qualities[i].qualityIndex = index

\* the height of the entry with this qualityIndex
heightOfIndex(qualities, index) ==
    qualities[CHOOSE i \in 1..Len(qualities) : qualities[i].qualityIndex = index].height

\* the engine switchToQuality(entry) calls; 0 is a null reference, on which
\* the call throws
switchTarget ==
    IF currentPlayerType = "dash" THEN dashPlayer
    ELSE IF currentPlayerType = "hls" THEN hlsPlayer
    ELSE -1

\* the click listener of the .quality-option of this height
selectQuality(height) ==
    /\ \E i \in 1..Len(qualityMenu) : qualityMenu[i] = height
    /\ lastOp' = Op("selectQuality", height, 0,
                    hasHeight(videoQualities, height) /\ ~qualityBtnDisabled
                        /\ switchTarget # 0)
    /\ IF ~hasHeight(videoQualities, height) \/ qualityBtnDisabled \/ switchTarget = 0
       THEN UNCHANGED <<preferredQuality, qualityBtnDisabled, currentActiveHeight>>
       ELSE /\ preferredQuality' = height
            /\ IF currentPlayerType = "dash"
               THEN /\ qualityBtnDisabled' = TRUE
                    /\ UNCHANGED currentActiveHeight
               ELSE /\ currentActiveHeight' = height
                    /\ UNCHANGED qualityBtnDisabled
    /\ UNCHANGED <<currentVideoId, dashPlayer, hlsPlayer, currentPlayerType,
                   currentAudioLang, hlsAudioTracks, currentVideoChannelId,
                   audioBtnContainer, videoQualities, qualityMenu, pendingSeek,
                   audioMenu, engines, infoChains, loads>>
    /\ UNCHANGED <<listVars, navVars, queueVars, profileVars, mediaVars, subtitleVars>>

\* QUALITY_CHANGE_RENDERED of the dash engine e for video, newQuality being
\* the index the engine reports
qualityChangeRendered(e, newQuality) ==
    /\ e \in LiveEngines /\ engines[e].kind = "dash" /\ engines[e].ready
    /\ newQuality \in 0..(Len(engines[e].levels) - 1)
    /\ lastOp' = NoOp
    /\ IF hasQualityIndex(videoQualities, newQuality)
       THEN /\ currentActiveHeight' = heightOfIndex(videoQualities, newQuality)
            /\ qualityBtnDisabled' = FALSE
       ELSE UNCHANGED <<currentActiveHeight, qualityBtnDisabled>>
    /\ UNCHANGED <<currentVideoId, dashPlayer, hlsPlayer, currentPlayerType,
                   currentAudioLang, hlsAudioTracks, currentVideoChannelId,
                   audioBtnContainer, preferredQuality, videoQualities, qualityMenu,
                   pendingSeek, audioMenu, engines, infoChains, loads>>
    /\ UNCHANGED <<listVars, navVars, queueVars, profileVars, mediaVars, subtitleVars>>

\* LEVEL_SWITCHED of the hls engine e, level being data.level.  The handler
\* reads hlsPlayer.levels, which throws when hlsPlayer is null.
levelSwitched(e, level) ==
    /\ e \in LiveEngines /\ engines[e].kind = "hls" /\ engines[e].ready
    /\ level \in 0..(Len(engines[e].levels) - 1)
    /\ lastOp' = NoOp
    /\ IF hlsPlayer # 0 /\ level < Len(levelsOf(hlsPlayer))
          /\ hasHeight(videoQualities, levelsOf(hlsPlayer)[level + 1])
       THEN /\ currentActiveHeight' = levelsOf(hlsPlayer)[level + 1]
            /\ qualityBtnDisabled' = FALSE
       ELSE UNCHANGED <<currentActiveHeight, qualityBtnDisabled>>
    /\ UNCHANGED <<currentVideoId, dashPlayer, hlsPlayer, currentPlayerType,
                   currentAudioLang, hlsAudioTracks, currentVideoChannelId,
                   audioBtnContainer, preferredQuality, videoQualities, qualityMenu,
                   pendingSeek, audioMenu, engines, infoChains, loads>>
    /\ UNCHANGED <<listVars, navVars, queueVars, profileVars, mediaVars, subtitleVars>>

\* a video plays on a ready dash engine with two levels, its menu rendered;
\* a profile is active or not
InitSelectQuality ==
    /\ InitList /\ InitQueue /\ InitSubtitle
    /\ currentProfile \in BOOLEAN
    /\ apiPosition = [v \in Videos |-> NoPos]
    /\ apiPreferences = NoPreferences
    /\ lastOp = NoOp
    /\ currentVideoId \in Videos
    /\ view = "video"
    /\ cachedHasMore = TRUE
    /\ listViewCache = Some([mode |-> "search", query |-> "", channelId |-> Null,
                             cursor |-> NoCursor, html |-> <<>>,
                             searchRawResults |-> <<>>])
    /\ historyVideos = {currentVideoId}
    /\ engines = <<[Engine("dash", currentVideoId, <<1080, 720>>) EXCEPT !.ready = TRUE]>>
    /\ dashPlayer = 1
    /\ hlsPlayer = 0
    /\ currentPlayerType = "dash"
    /\ currentAudioLang = "original"
    /\ hlsAudioTracks = <<"original", "fr">>
    /\ currentVideoChannelId = "ch"
    /\ audioMenu = <<"original", "fr">>
    /\ audioBtnContainer = TRUE
    /\ preferredQuality \in {1080, 480}
    /\ videoQualities = buildQualities(<<1080, 720>>)
    /\ currentActiveHeight = getTargetQuality(heightsOf(videoQualities), preferredQuality)
    /\ qualityMenu = reverse(heightsOf(videoQualities))
    /\ qualityBtnDisabled = FALSE
    /\ pendingSeek = None
    /\ infoChains = {}
    /\ loads = 1
    /\ currentTime = 0
    /\ paused = FALSE
    /\ duration = MediaDuration
    /\ positionSaveTimer = FALSE
    /\ sessionStorage = [v \in Videos |-> NoPos]
    /\ restoreCalls = 1

\* the heights an option of the menu can have
MenuHeights == {1080, 720}

NextSelectQuality ==
    \/ \E height \in MenuHeights : selectQuality(height)
    \/ \E e \in DOMAIN engines, q \in 0..(MaxLevels - 1) : qualityChangeRendered(e, q)
    \/ \E e \in DOMAIN engines, l \in 0..(MaxLevels - 1) : levelSwitched(e, l)
    \/ \E lang \in {"original", "fr"} : audioOptionClick(lang)
    \/ \E e \in DOMAIN engines : dashReady(e)
    \/ \E e \in DOMAIN engines : hlsReady(e)
    \/ \E e \in DOMAIN engines : hlsFatalError(e)
    \/ popstateList

SpecSelectQuality == InitSelectQuality /\ [][NextSelectQuality]_vars

\* C21: selecting a height that is among the available qualities makes it
\* the preference in local storage and, when a profile is active, in the
\* server-side preferences as well; selecting a height that is not among
\* them changes nothing and persists nothing.
C21_SelectQualityPersists ==
    [][lastOp'.op = "selectQuality" =>
         IF hasHeight(videoQualities, lastOp'.gen)
         THEN /\ preferredQuality' = lastOp'.gen
              /\ currentProfile => apiPreferences'.preferred_quality = lastOp'.gen
         ELSE UNCHANGED <<listVars, navVars, queueVars, sessionVars, mediaVars,
                          profileVars, subtitleVars>>]_vars

\* C37: a quality command of the menu goes to the live engine of the
\* session, with an index of the list this engine reported when it became
\* ready: not to an engine that replaced it and has not reported yet.
C37_CommandFromOwnList ==
    [][(lastOp'.op = "selectQuality" /\ lastOp'.flag)
       => /\ switchTarget \in LiveEngines
          /\ engines[switchTarget].ready
          /\ videoQualities = buildQualities(engines[switchTarget].levels)]_vars

(* Properties of audio switching *)

\* C4: after an audio switch made at a transport time T > 0, the ready
\* handler of the replacement engine, when the engine reports video levels,
\* seeks to T, leaves the media playing or paused as it was at the switch,
\* clears pendingSeek and does not call restorePosition.
C4_AudioSwitchResume ==
    [][\A e \in DOMAIN engines :
          (/\ lastOp'.op = "ready" /\ lastOp'.n = e
           /\ pendingSeek # None /\ pendingSeek[1].time > 0
           /\ e \in {dashPlayer, hlsPlayer}
           /\ engines[e].levels # <<>>)
          => /\ currentTime' = pendingSeek[1].time
             /\ paused' = ~pendingSeek[1].play
             /\ pendingSeek' = None
             /\ restoreCalls' = restoreCalls]_vars

\* C34: after every ready event of an engine pendingSeek is null: the
\* pendingSeek an audio switch has set is consumed by the first ready event
\* of the replacement engine, whatever quality list that engine reports.
C34_ReadyClearsPendingSeek ==
    [][lastOp'.op = "ready" => pendingSeek' = None]_vars

\* C35: an audio switch made while the pendingSeek of an earlier switch is
\* still waiting for its engine keeps that pendingSeek: the time and the
\* play state of the first switch are the ones resumed.
C35_SecondSwitchKeepsPendingSeek ==
    [][(/\ lastOp'.op = "audioOptionClick" /\ lastOp'.flag
        /\ pendingSeek # None)
       => pendingSeek' = pendingSeek]_vars

\* C11: a fatal error of the playlist (HLS) engine destroys that engine,
\* starts a manifest (DASH) engine for the same video id as the one live
\* engine, and sets the session's audio language back to "original".
C11_HlsFatalFallback ==
    [][\A e \in DOMAIN engines :
          (lastOp'.op = "hlsFatalError" /\ lastOp'.n = e /\ hlsPlayer = e)
          => /\ e \notin LiveEngines'
             /\ hlsPlayer' = 0
             /\ dashPlayer' \in LiveEngines'
             /\ engines'[dashPlayer'].kind = "dash"
             /\ engines'[dashPlayer'].video = engines[e].video
             /\ currentAudioLang' = "original"]_vars

\* C12: a fatal error of the manifest (DASH) engine starts and destroys no
\* engine (no fallback, no restart) and makes an error visible on the page.
C12_DashFatalSurfaced ==
    [][\A e \in DOMAIN engines :
          (lastOp'.op = "dashFatalError" /\ lastOp'.n = e)
          => /\ engines' = engines
             /\ dashPlayer' = dashPlayer /\ hlsPlayer' = hlsPlayer
             /\ currentPlayerType' = currentPlayerType
             /\ renderedPage' # renderedPage]_vars

\* the session is switching the audio language: the resume request of
\* switchAudioLanguage is pending
Switching == pendingSeek # None
\* the session has a video and the engine of its player type is live
Active ==
    /\ currentVideoId # Null
    /\ currentPlayerType \in {"dash", "hls"}
    /\ (IF currentPlayerType = "dash" THEN dashPlayer ELSE hlsPlayer) \in LiveEngines
\* no video and no engine
Idle == currentVideoId = Null /\ dashPlayer = 0 /\ hlsPlayer = 0

-----------------------------------------------------------------------------
(* Subtitles during a session: a video that plays on the manifest engine,  *)
(* has two audio tracks and offers an en-GB and a French subtitle track;   *)
(* a language may be saved from an earlier visit.  The user switches the   *)
(* audio language, picks subtitles, goes back to the list and loads the    *)
(* video again; track elements load or fail.                               *)

SessionTracks == <<Track(<<"en", "GB">>, 1), Track(<<"fr">>, 2)>>

\* the <track> element loadSubtitleTracks left for the saved language
loadedTrackEl(videoId, tracks, saved) ==
    IF saved \notin {NoLang, OffLang} /\ preferredTrack(tracks, saved) # 0
    THEN Some([lang |-> tracks[preferredTrack(tracks, saved)].lang, video |-> videoId])
    ELSE None

InitSubtitleSession ==
    /\ InitList /\ InitQueue /\ InitProfile
    /\ lastOp = NoOp
    /\ currentVideoId = "v1"
    /\ view = "video"
    /\ cachedHasMore = TRUE
    /\ listViewCache = Some([mode |-> "search", query |-> "", channelId |-> Null,
                             cursor |-> NoCursor, html |-> <<>>,
                             searchRawResults |-> <<>>])
    /\ historyVideos = {currentVideoId}
    /\ engines = <<[Engine("dash", currentVideoId, <<1080, 720>>) EXCEPT !.ready = TRUE]>>
    /\ dashPlayer = 1
    /\ hlsPlayer = 0
    /\ currentPlayerType = "dash"
    /\ currentAudioLang = "original"
    /\ hlsAudioTracks = <<"original", "fr">>
    /\ currentVideoChannelId = "ch"
    /\ audioMenu = <<"original", "fr">>
    /\ audioBtnContainer = TRUE
    /\ preferredQuality = 1080
    /\ currentActiveHeight = 1080
    /\ videoQualities = buildQualities(<<1080, 720>>)
    /\ qualityMenu = reverse(heightsOf(videoQualities))
    /\ qualityBtnDisabled = FALSE
    /\ pendingSeek = None
    /\ infoChains = {}
    /\ loads = 1
    /\ currentTime = 0
    /\ paused = FALSE
    /\ duration = MediaDuration
    /\ positionSaveTimer = FALSE
    /\ sessionStorage = [v \in Videos |-> NoPos]
    /\ restoreCalls = 1
    /\ subtitleOffer = [v \in Videos |-> SessionTracks]
    /\ subtitleTracks = subtitleOffer[currentVideoId]
    /\ failedSubtitles = {}
    /\ subtitle_lang \in {NoLang, <<"en">>, <<"fr">>}
    /\ trackEl = loadedTrackEl(currentVideoId, subtitleTracks, subtitle_lang)
    /\ trackLoads = Range(trackEl)
    /\ subtitleBtn = IF trackEl = None THEN NoLang ELSE trackEl[1].lang
    /\ subtitleBtnContainer = TRUE
    /\ subtitleMenu = <<>>
    /\ erroredTracks = {}

NextSubtitle ==
    \/ \E videoId \in Videos : popstateVideo(videoId)
    \/ popstateList
    \/ \E c \in infoChains : infoSettled(c)
    \/ \E lang \in {"original", "fr"} : audioOptionClick(lang)
    \/ \E e \in DOMAIN engines : dashReady(e)
    \/ \E e \in DOMAIN engines : hlsReady(e)
    \/ renderSubtitleMenu
    \/ \E lang \in {NoLang} \cup SubtitleLangs : selectSubtitle(lang)
    \/ \E l \in trackLoads : trackLoad(l)
    \/ \E l \in trackLoads : trackError(l)

SpecSubtitle == InitSubtitleSession /\ [][NextSubtitle]_vars

(* Properties of subtitles during a session *)

\* C15: once the load of a subtitle track has failed for a video, no later
\* automatic application of the saved preference (on load of the video, or
\* when an engine is ready after an audio switch) starts a load of that
\* track for that video again.
C15_NoRetryOfFailedTrack ==
    [][\A l \in trackLoads' \ trackLoads :
          lastOp'.op # "selectSubtitle" => l \notin erroredTracks]_vars

\* C16: when the load of a subtitle track fails, the pair of the track's
\* video and language is added to the failure memory (and nothing else is),
\* the saved preference becomes "off" if and only if it is the failing
\* language, the indicator shows no subtitle, and the live engine, the
\* transport position and play/pause are unchanged.
C16_TrackLoadFailure ==
    [][\A l \in trackLoads \ trackLoads' :
          lastOp'.op = "trackError"
          => /\ failedSubtitles' = failedSubtitles \cup {<<l.video, l.lang>>}
             /\ subtitle_lang' = (IF subtitle_lang = l.lang THEN OffLang ELSE subtitle_lang)
             /\ subtitleBtn' = NoLang
             /\ UNCHANGED <<engines, dashPlayer, hlsPlayer, currentPlayerType,
                            currentTime, paused>>]_vars

\* C39: the error event of a <track> created for a video that is no longer
\* the current one adds no entry to the failure memory under the id of the
\* session's video and leaves the saved language as it is.
C39_FailureOfItsOwnVideo ==
    [][\A l \in trackLoads \ trackLoads' :
          (lastOp'.op = "trackError" /\ l.video # currentVideoId)
          => /\ <<currentVideoId, l.lang>> \in failedSubtitles' => <<currentVideoId, l.lang>> \in failedSubtitles
             /\ subtitle_lang' = subtitle_lang]_vars

-----------------------------------------------------------------------------
(* Properties of stop and load, checked on the playback session *)

\* C17: stopPlayer() persists the position, leaves no engine live, resets
\* the session fields (video id, channel id, player type, audio language,
\* active quality height, quality list, pending seek) and removes the
\* <track> elements; a second consecutive stopPlayer() changes nothing of
\* the player and writes no position.
C17_StopPlayer ==
    [][lastOp'.op = "stopPlayer"
       => /\ sessionStorage' = savePosition(sessionStorage)
          /\ LiveEngines' = {}
          /\ currentVideoId' = Null
          /\ currentVideoChannelId' = Null
          /\ currentPlayerType' = Null
          /\ currentAudioLang' = Null
          /\ currentActiveHeight' = 0
          /\ videoQualities' = <<>>
          /\ pendingSeek' = None
          /\ trackEl' = None
          /\ (lastOp.op = "stopPlayer" => UNCHANGED playerVars)]_vars

\* C36: while there is no current video no engine is live and the player
\* type, the audio language and the audio-track list are reset; and the
\* answer of /api/info or /api/hls/audio-tracks for a video that is no
\* longer the current one starts no engine and writes no session field.
C36_LateAnswersIgnored ==
    /\ [](currentVideoId = Null
           => /\ LiveEngines = {}
              /\ currentPlayerType = Null
              /\ currentAudioLang = Null
              /\ hlsAudioTracks = <<>>)
    /\ [][\A c \in infoChains \ infoChains' :
             c.video # currentVideoId
             => UNCHANGED <<engines, dashPlayer, hlsPlayer, currentPlayerType,
                            currentVideoChannelId, currentAudioLang, hlsAudioTracks,
                            audioBtnContainer, audioMenu, subtitleTracks>>]_vars

-----------------------------------------------------------------------------
(* Loading videos: from the list, from the related videos of the video     *)
(* that plays, and back to the list, while the media plays.                *)

\* the transport time the media reports in this specification
LoadTimes == {4000}

NextLoad ==
    \/ \E videoId \in Videos : navigateToVideo(videoId)
    \/ \E videoId \in Videos : relatedClick(videoId)
    \/ popstateList
    \/ \E c \in infoChains : infoSettled(c)
    \/ \E e \in DOMAIN engines : dashReady(e)
    \/ \E t \in LoadTimes : timeupdate(t)
    \/ positionSaveTimerFired

SpecLoad == Init /\ [][NextLoad]_vars

(* Properties of loading *)

\* the engine whose source is attached to the media element: the one started
\* last, which the global of the current player type refers to; 0 if none
playingEngine ==
    IF currentPlayerType = "dash" THEN dashPlayer
    ELSE IF currentPlayerType = "hls" THEN hlsPlayer
    ELSE 0

\* C18: playVideo called while a video is loaded writes the position of
\* that video under its id and under no other, destroys the engines of the
\* session and resets the session fields, and then makes the requested
\* video the current one; and whenever a position is written under a video
\* id, the transport time written is that of an engine of this video.
C18_LoadOverLoaded ==
    [][/\ (lastOp'.op = "playVideo" /\ currentVideoId # Null)
          => /\ sessionStorage' = savePosition(sessionStorage)
             /\ \A v \in Videos \ {currentVideoId} : sessionStorage'[v] = sessionStorage[v]
             /\ {dashPlayer, hlsPlayer} \cap LiveEngines' = {}
             /\ dashPlayer' = 0 /\ hlsPlayer' = 0
             /\ currentVideoChannelId' = Null
             /\ currentPlayerType' = Null
             /\ currentAudioLang' = Null
             /\ currentActiveHeight' = 0
             /\ videoQualities' = <<>>
             /\ pendingSeek' = None
             /\ currentTime' = 0 /\ ~positionSaveTimer'
             /\ \E c \in infoChains' \ infoChains : currentVideoId' = c.video
       /\ \A v \in Videos :
             (sessionStorage'[v] # sessionStorage[v] /\ sessionStorage'[v] # NoPos)
             => /\ playingEngine # 0
                /\ engines[playingEngine].video = v]_vars

\* C19: playVideo starts the manifest (dash) engine in the same step, without
\* waiting for the answer of /api/info: when playVideo returns, the player
\* type is dash and a live dash engine for the requested video exists.
C19_LoadStartsDash ==
    [][lastOp'.op = "playVideo"
       => /\ currentPlayerType' = "dash"
          /\ dashPlayer' \in LiveEngines'
          /\ engines'[dashPlayer'].video = currentVideoId']_vars

\* C20: when the /api/info request of the current load settles, with an
\* answer or with a failure, the session is Active on the manifest (dash)
\* engine: exactly one engine is live, a dash engine for the requested video.
C20_InfoSettledPlays ==
    [][\A c \in infoChains \ infoChains' :
          (c.kind = "info" /\ c.n = loads /\ c.video = currentVideoId)
          => /\ Active'
             /\ currentPlayerType' = "dash"
             /\ engines'[dashPlayer'].video = c.video
             /\ LiveEngines' = {dashPlayer'}]_vars
====
